---- MODULE Spec2Model ----
(***************************************************************************)
(* A model of noam-hoze/screening-test:                                    *)
(*   * transformData (src/dataTransform.js): filter, group, aggregate and  *)
(*     sort an array of records;                                           *)
(*   * the filter / sort pipeline of HotelBookingDashboard                 *)
(*     (src/src/HotelBookingDashboard.tsx): parsePartialDate,              *)
(*     rangesOverlap and the filteredHotels computation.                   *)
(*                                                                         *)
(* JavaScript strings are sequences of one-character strings, so that      *)
(* join, split, parseInt, toLowerCase and includes are computed and not    *)
(* assumed.  A JavaScript value is a record [t, n, s]: t is its typeof     *)
(* tag, n its number, s its characters.  Object references (the records    *)
(* of the input array) are indices into the array.                         *)
(***************************************************************************)
EXTENDS Integers, Sequences, FiniteSets, TLC

VARIABLES
    arr,            \* transformData: first argument (the records of the array)
    arrIsArray,     \* transformData: Array.isArray(arr)
    options,        \* transformData: second argument
    result,         \* transformData: what the call returned or threw
    tz,             \* the browser's time zone: minutes east of UTC
    dateStr,        \* parsePartialDate: its argument
    parsed,         \* parsePartialDate: what it returned
    filters,        \* the dashboard's FilterState
    sort,           \* the dashboard's SortConfig
    filteredHotels, \* the filteredHotels memo: indices into HOTELS
    currentPage,    \* the dashboard's currentPage
    totalPages,     \* the dashboard's totalPages
    paginatedHotels, \* the paginatedHotels memo: the rows of the current page
    rangeA,         \* rangesOverlap: first argument
    rangeB,         \* rangesOverlap: second argument
    overlaps,       \* rangesOverlap: what it returned
    nestedObj,      \* getNestedValue: first argument
    nestedPath,     \* getNestedValue: second argument, split at the dots
    nested,         \* getNestedValue: what it returned
    records,        \* the records the dashboard lists: the HOTELS array
    searchInput,    \* the dashboard's searchInput
    debouncedValue, \* useDebounce: its debouncedValue
    timers,         \* useDebounce: the timeouts pending, by the value they set
    url,            \* the parameters of window.location.search
    stored,         \* localStorage: the item 'hotelFilters'
    pc              \* which call has run

transformVars == <<arr, arrIsArray, options, result>>

dateVars == <<dateStr, parsed>>

hotelVars == <<filters, sort, filteredHotels>>

pageVars == <<currentPage, totalPages, paginatedHotels>>

overlapVars == <<rangeA, rangeB, overlaps>>

nestedVars == <<nestedObj, nestedPath, nested>>

searchVars == <<searchInput, debouncedValue, timers>>

storeVars == <<url, stored>>

vars == <<arr, arrIsArray, options, result, tz, dateStr, parsed,
          filters, sort, filteredHotels, currentPage, totalPages,
          paginatedHotels, rangeA, rangeB, overlaps, nestedObj, nestedPath,
          nested, records, searchInput, debouncedValue, timers, url, stored,
          pc>>

(***************************************************************************)
(* Bounds of the model.                                                    *)
(***************************************************************************)
MaxItems == 3

(***************************************************************************)
(* JavaScript values and strings.                                          *)
(***************************************************************************)
Digits == <<"0", "1", "2", "3", "4", "5", "6", "7", "8", "9">>

IsDigit(c) == \E d \in 1..10 : Digits[d] = c

DigitValue(c) == (CHOOSE d \in 1..10 : Digits[d] = c) - 1

Undef == [t |-> "undefined", n |-> 0, s |-> <<>>]

Num(n) == [t |-> "number", n |-> n, s |-> <<>>]

Str(s) == [t |-> "string", n |-> 0, s |-> s]

Null == [t |-> "null", n |-> 0, s |-> <<>>]

\* true is Bool(1), false is Bool(0).
Bool(b) == [t |-> "boolean", n |-> b, s |-> <<>>]

\* A property slot of a record: a primitive, or a nested object whose only
\* property is city (the shape of `location` in the test data).
Prim(v) == [t |-> v.t, n |-> v.n, s |-> v.s, city |-> Undef]

Obj(cityVal) == [t |-> "object", n |-> 0, s |-> <<>>, city |-> cityVal]

AsPrim(slot) == [t |-> slot.t, n |-> slot.n, s |-> slot.s]

RECURSIVE NumToStr(_)
\* String(n) for an integer n.
NumToStr(n) ==
    IF n < 0 THEN <<"-">> \o NumToStr(-n)
    ELSE IF n < 10 THEN <<Digits[n + 1]>>
    ELSE NumToStr(n \div 10) \o <<Digits[(n % 10) + 1]>>

\* What Array.prototype.join makes of one element: undefined and null give
\* the empty string, everything else String(element).
JoinElement(v) ==
    CASE v.t = "undefined" -> <<>>
      [] v.t = "null" -> <<>>
      [] v.t = "number" -> NumToStr(v.n)
      [] v.t = "string" -> v.s
      [] OTHER -> <<"[", "o", "b", "j", "e", "c", "t", " ",
                    "O", "b", "j", "e", "c", "t", "]">>

RECURSIVE Join(_, _)
\* Array.prototype.join(sep) of a sequence of values.
Join(vals, sep) ==
    IF Len(vals) = 0 THEN <<>>
    ELSE IF Len(vals) = 1 THEN JoinElement(vals[1])
    ELSE JoinElement(vals[1]) \o sep \o Join(Tail(vals), sep)

RECURSIVE SplitFrom(_, _, _)
\* The pieces of s between occurrences of the character sep; cur is the
\* piece being read.
SplitFrom(s, sep, cur) ==
    IF Len(s) = 0 THEN <<cur>>
    ELSE IF Head(s) = sep THEN <<cur>> \o SplitFrom(Tail(s), sep, <<>>)
    ELSE SplitFrom(Tail(s), sep, Append(cur, Head(s)))

\* String.prototype.split(sep) for a one-character separator.
Split(s, sep) == SplitFrom(s, sep, <<>>)

RECURSIVE StrToNat(_)
StrToNat(s) ==
    IF Len(s) = 0 THEN 0
    ELSE 10 * StrToNat(SubSeq(s, 1, Len(s) - 1)) + DigitValue(s[Len(s)])

\* An own property key that is an array index (a canonical numeric string):
\* Object.entries lists these first, in ascending numeric order.
IsArrayIndex(key) ==
    /\ Len(key) > 0
    /\ \A i \in 1..Len(key) : IsDigit(key[i])
    /\ (Len(key) = 1 \/ key[1] # "0")

(***************************************************************************)
(* transformData (src/dataTransform.js).                                   *)
(*                                                                         *)
(* A record of the array is [category, location, price]: each a slot.  A   *)
(* field path is the sequence of its dot-separated segments.               *)
(***************************************************************************)
\* acc?.[key] on a slot: the property of an object that has key, the length
\* of a string, and undefined otherwise (undefined, null, a number or a
\* boolean have no such property and ?. does not throw).
Prop(acc, key) ==
    IF acc.t = "object" /\ key = "city" THEN Prim(acc.city)
    ELSE IF acc.t = "string" /\ key = "length" THEN Prim(Num(Len(acc.s)))
    ELSE Prim(Undef)

RECURSIVE WalkPath(_, _)
WalkPath(acc, path) ==
    IF Len(path) = 0 THEN acc ELSE WalkPath(Prop(acc, Head(path)), Tail(path))

\* path.split('.').reduce((acc, key) => acc?.[key], obj)
getNestedValue(obj, path) ==
    LET top == IF Head(path) \in DOMAIN obj
               THEN obj[Head(path)] ELSE Prim(Undef)
    IN  AsPrim(WalkPath(top, Tail(path)))

\* Array.isArray(groupBy) ? groupBy : [groupBy]
GroupKeys(groupBy) == groupBy.keys

createGroupKey(item, groupBy) ==
    Join([i \in 1..Len(GroupKeys(groupBy)) |->
             getNestedValue(item, GroupKeys(groupBy)[i])], <<"|">>)

\* The filter functions the callers pass: none, or item => item.price > 1
\* (the shape of Test 4's item => item.price > 100).
FilterFnHolds(filterFn, item) ==
    CASE filterFn = "priceAbove1" ->
             item.price.t = "number" /\ item.price.n > 1
      [] OTHER -> TRUE

RECURSIVE FilterIndices(_, _, _)
\* arr.filter(filterFn), as the indices of the records kept, from index i on.
FilterIndices(a, filterFn, i) ==
    IF i > Len(a) THEN <<>>
    ELSE (IF FilterFnHolds(filterFn, a[i]) THEN <<i>> ELSE <<>>)
         \o FilterIndices(a, filterFn, i + 1)

\* A pre-filter that is never applied.
FilteredItems_Unfiltered(a, filterFn) == [i \in 1..Len(a) |-> i]

\* filterFn ? arr.filter(filterFn) : arr
FilteredItems(a, filterFn) ==
    IF filterFn = "none" THEN [i \in 1..Len(a) |-> i]
    ELSE FilterIndices(a, filterFn, 1)

\* A grouping step that starts the group afresh instead of pushing to it.
AddToGroup_Overwrite(acc, key, item) ==
    IF \E j \in 1..Len(acc) : acc[j].key = key
    THEN LET j == CHOOSE j \in 1..Len(acc) : acc[j].key = key
         IN  [acc EXCEPT ![j].items = <<item>>]
    ELSE Append(acc, [key |-> key, items |-> <<item>>])

\* One step of the reduce that groups: if (!acc[key]) acc[key] = [];
\* acc[key].push(item).  acc is the object's own properties in insertion order.
AddToGroup(acc, key, item) ==
    IF \E j \in 1..Len(acc) : acc[j].key = key
    THEN LET j == CHOOSE j \in 1..Len(acc) : acc[j].key = key
         IN  [acc EXCEPT ![j].items = Append(@, item)]
    ELSE Append(acc, [key |-> key, items |-> <<item>>])

RECURSIVE GroupItems(_, _, _, _)
GroupItems(a, items, groupBy, acc) ==
    IF Len(items) = 0 THEN acc
    ELSE GroupItems(a, Tail(items), groupBy,
                    AddToGroup(acc, createGroupKey(a[Head(items)], groupBy),
                               Head(items)))

RECURSIVE InsertByIndexKey(_, _)
InsertByIndexKey(sorted, g) ==
    IF Len(sorted) = 0 THEN <<g>>
    ELSE IF StrToNat(g.key) < StrToNat(Head(sorted).key)
         THEN <<g>> \o sorted
         ELSE <<Head(sorted)>> \o InsertByIndexKey(Tail(sorted), g)

RECURSIVE SortIndexKeys(_)
SortIndexKeys(gs) ==
    IF Len(gs) = 0 THEN <<>>
    ELSE InsertByIndexKey(SortIndexKeys(SubSeq(gs, 1, Len(gs) - 1)), gs[Len(gs)])

IsIndexGroup(g) == IsArrayIndex(g.key)

IsNamedGroup(g) == ~IsArrayIndex(g.key)

\* Object.entries(groups): array-index keys first in ascending order, then
\* the other keys in insertion order.
ObjectEntries(acc) ==
    SortIndexKeys(SelectSeq(acc, IsIndexGroup)) \o SelectSeq(acc, IsNamedGroup)

\* keys.reduce((acc, k, i) => { acc[k.split('.').pop()] = key.split('|')[i] })
groupIdentity(key, groupBy) ==
    LET keys == GroupKeys(groupBy)
        pieces == Split(key, "|")
    IN  [i \in 1..Len(keys) |->
            [name |-> keys[i][Len(keys[i])],
             value |-> IF i <= Len(pieces) THEN Str(pieces[i]) ELSE Undef]]

RECURSIVE NumericValues_NoTypeCheck(_, _, _)
\* The values of a group without the typeof filter: every member counts.
NumericValues_NoTypeCheck(a, groupItems, field) ==
    IF Len(groupItems) = 0 THEN <<>>
    ELSE <<getNestedValue(a[Head(groupItems)], field).n>>
         \o NumericValues_NoTypeCheck(a, Tail(groupItems), field)

RECURSIVE NumericValues(_, _, _)
\* groupItems.map(item => getNestedValue(item, field))
\*           .filter(val => typeof val === 'number')
NumericValues(a, groupItems, field) ==
    IF Len(groupItems) = 0 THEN <<>>
    ELSE LET v == getNestedValue(a[Head(groupItems)], field)
         IN  (IF v.t = "number" THEN <<v.n>> ELSE <<>>)
             \o NumericValues(a, Tail(groupItems), field)

RECURSIVE SumOf(_)
\* values.reduce((sum, v) => sum + v, 0)
SumOf(values) ==
    IF Len(values) = 0 THEN 0 ELSE Head(values) + SumOf(Tail(values))

RECURSIVE MathMin(_)
MathMin(values) ==
    IF Len(values) = 1 THEN Head(values)
    ELSE LET m == MathMin(Tail(values))
         IN  IF Head(values) < m THEN Head(values) ELSE m

RECURSIVE MathMax(_)
MathMax(values) ==
    IF Len(values) = 1 THEN Head(values)
    ELSE LET m == MathMax(Tail(values))
         IN  IF Head(values) > m THEN Head(values) ELSE m

\* An aggregate is null or the exact quotient num / den (den > 0).
NullAgg == [isNull |-> TRUE, num |-> 0, den |-> 1]

Rat(num, den) == [isNull |-> FALSE, num |-> num, den |-> den]

AggKinds == {"sum", "avg", "min", "max", "count"}

\* An empty values that gives count 0 instead of null.
EmptyAggregate_CountZero(aggFn) ==
    IF aggFn = "count" THEN Rat(0, 1) ELSE NullAgg

\* if (values.length === 0) acc[field] = null
EmptyAggregate(aggFn) == NullAgg

\* case 'avg': values.reduce((sum, v) => sum + v, 0) / values.length
AvgOf(values) == Rat(SumOf(values), Len(values))

\* case 'count': values.length
CountOf(values) == Rat(Len(values), 1)

\* The switch on aggFn, for a non-empty values.
AggregateValues(aggFn, values) ==
    CASE aggFn = "sum" -> Rat(SumOf(values), 1)
      [] aggFn = "avg" -> AvgOf(values)
      [] aggFn = "min" -> Rat(MathMin(values), 1)
      [] aggFn = "max" -> Rat(MathMax(values), 1)
      [] aggFn = "count" -> CountOf(values)
      [] OTHER -> NullAgg

\* Whether computing acc[field] for this group throws: the default branch of
\* the switch, which is reached only when values is not empty.
AggregateThrows(a, groupItems, field, aggFn) ==
    /\ Len(NumericValues(a, groupItems, field)) > 0
    /\ aggFn \notin AggKinds

\* One entry of aggregates.
aggregateOf(a, groupItems, field, aggFn) ==
    LET values == NumericValues(a, groupItems, field)
    IN  IF Len(values) = 0 THEN EmptyAggregate(aggFn)
        ELSE AggregateValues(aggFn, values)

\* Object.entries(aggregations).reduce(...): one entry per aggregated field.
aggregates(a, groupItems, aggregations) ==
    [k \in 1..Len(aggregations) |->
        [field |-> aggregations[k].field,
         value |-> aggregateOf(a, groupItems, aggregations[k].field,
                               aggregations[k].aggFn)]]

\* { ...groupIdentity, aggregates, items: groupItems, count: groupItems.length }
MakeGroup(a, entry, opts) ==
    [identity |-> groupIdentity(entry.key, opts.groupBy),
     aggregates |-> aggregates(a, entry.items, opts.aggregations),
     items |-> entry.items,
     count |-> Len(entry.items)]

\* A null or missing aggregate taken as a large number instead of 0.
AggregateOrZero_NullLargest(g, field) ==
    IF \E k \in 1..Len(g.aggregates) :
           g.aggregates[k].field = field /\ ~g.aggregates[k].value.isNull
    THEN (LET k == CHOOSE k \in 1..Len(g.aggregates) :
                       g.aggregates[k].field = field
          IN  g.aggregates[k].value)
    ELSE Rat(1000, 1)

\* a.aggregates[field] ?? 0
AggregateOrZero(g, field) ==
    IF \E k \in 1..Len(g.aggregates) :
           g.aggregates[k].field = field /\ ~g.aggregates[k].value.isNull
    THEN (LET k == CHOOSE k \in 1..Len(g.aggregates) :
                       g.aggregates[k].field = field
          IN  g.aggregates[k].value)
    ELSE Rat(0, 1)

Sign(x) == IF x > 0 THEN 1 ELSE IF x < 0 THEN -1 ELSE 0

\* order === 'asc' ? valA - valB : valB - valA, as its sign.
CompareGroups(ga, gb, sortBy) ==
    LET valA == AggregateOrZero(ga, sortBy.field)
        valB == AggregateOrZero(gb, sortBy.field)
        diff == Sign(valA.num * valB.den - valB.num * valA.den)
    IN  IF sortBy.order = "asc" THEN diff ELSE -diff

(***************************************************************************)
(* Array.prototype.sort(compare).  The result is a permutation in which no *)
(* element comes before one the comparator puts ahead of it; the sort is   *)
(* stable, so two elements the comparator calls equal (0 both ways) keep   *)
(* their order.  Where the comparator never answers 0 for a pair of equal  *)
(* elements their order is whatever the engine's algorithm leaves: every   *)
(* such permutation is a possible outcome.                                 *)
(***************************************************************************)
\* Element e can come before every other element of the set left.
SortsFirst(e, left, cmp) ==
    \A o \in left \ {e} :
        /\ cmp[e][o] <= 0
        /\ (cmp[e][o] = 0 /\ cmp[o][e] = 0 => e < o)

RECURSIVE SortOrders(_, _)
\* The orders the elements of the set left can end in, place by place.
SortOrders(left, cmp) ==
    IF left = {} THEN {<<>>}
    ELSE UNION {{<<e>> \o rest : rest \in SortOrders(left \ {e}, cmp)} :
                   e \in {x \in left : SortsFirst(x, left, cmp)}}

\* cmp[i][j] is what the comparator answers for elements i and j of the
\* array of n elements; the outcomes are the orders p (p[i]: the element
\* that ends at place i).
SortOutcomes(n, cmp) == SortOrders(1..n, cmp)

Permute(s, p) == [i \in 1..Len(s) |-> s[p[i]]]

\* if (sortBy?.field) result.sort((a, b) => ...)
SortGroups(groups, sortBy) ==
    IF Len(sortBy.field) = 0 THEN groups
    ELSE LET n == Len(groups)
             cmp == [i \in 1..n |-> [j \in 1..n |->
                        CompareGroups(groups[i], groups[j], sortBy)]]
         IN  Permute(groups, CHOOSE p \in SortOutcomes(n, cmp) : TRUE)

Returned(groups) == [threw |-> FALSE, error |-> <<>>, groups |-> groups]

Thrown(message) == [threw |-> TRUE, error |-> message, groups |-> <<>>]

\* items.reduce((acc, item) => ..., {}) followed by Object.entries(groups)
GroupEntries(a, opts) ==
    ObjectEntries(GroupItems(a, FilteredItems(a, opts.filterFn),
                             opts.groupBy, <<>>))

\* The first aggregation whose switch reaches its default branch, scanning
\* the groups and, within a group, the aggregations in order.
FirstThrow(a, entries, aggregations) ==
    LET bad == {<<g, k>> \in (1..Len(entries)) \X (1..Len(aggregations)) :
                   AggregateThrows(a, entries[g].items,
                                   aggregations[k].field, aggregations[k].aggFn)}
    IN  IF bad = {} THEN 0
        ELSE (CHOOSE gk \in bad :
                 \A o \in bad : gk[1] < o[1] \/ (gk[1] = o[1] /\ gk[2] <= o[2]))[2]

\* Guards that only look at the first argument.
InputError_ArrayOnly(isArray, opts) ==
    IF ~isArray THEN <<"First argument must be an array">> ELSE <<>>

\* The guards of lines 7-8: the message of the error they throw, <<>> when
\* they let the arguments through.  !options?.groupBy holds when options is
\* not given and when its groupBy is absent (or another falsy value).
InputError(isArray, opts) ==
    IF ~isArray THEN <<"First argument must be an array">>
    ELSE IF ~opts.given \/ opts.groupBy.kind = "absent"
    THEN <<"options.groupBy is required">>
    ELSE <<>>

transformData(a, isArray, opts) ==
    IF InputError(isArray, opts) # <<>> THEN Thrown(InputError(isArray, opts))
    ELSE LET entries == GroupEntries(a, opts)
             k == FirstThrow(a, entries, opts.aggregations)
         IN  IF k # 0
             THEN Thrown(<<"Unknown aggregation: ", opts.aggregations[k].aggFn>>)
             ELSE Returned(SortGroups(
                      [g \in 1..Len(entries) |-> MakeGroup(a, entries[g], opts)],
                      opts.sortBy))

(***************************************************************************)
(* Dates (src/src/HotelBookingDashboard.tsx).                              *)
(*                                                                         *)
(* A Date is its time value: [day, sec], the day number since 1970-01-01   *)
(* UTC and the second of that day.  new Date(y, m, d, ...) reads its       *)
(* arguments in local time, tz minutes east of UTC; new Date("YYYY-MM-DD") *)
(* reads UTC.                                                              *)
(***************************************************************************)
SecondsPerDay == 24 * 60 * 60

IsLeapYear(y) == (y % 4 = 0 /\ y % 100 # 0) \/ y % 400 = 0

\* The leap years before year y.
LeapYearsBefore(y) == ((y - 1) \div 4) - ((y - 1) \div 100) + ((y - 1) \div 400)

\* The day number of January 1 of year y.
DayFromYear(y) == 365 * (y - 1970) + LeapYearsBefore(y) - LeapYearsBefore(1970)

DaysInMonth(y, m0) ==
    IF m0 = 1 THEN (IF IsLeapYear(y) THEN 29 ELSE 28)
    ELSE IF m0 \in {3, 5, 8, 10} THEN 30 ELSE 31

RECURSIVE DaysBeforeMonth(_, _)
\* The days of year y before its month m0 (0 = January).
DaysBeforeMonth(y, m0) ==
    IF m0 = 0 THEN 0 ELSE DaysBeforeMonth(y, m0 - 1) + DaysInMonth(y, m0 - 1)

\* MakeDay(year, month, date): months past December carry into the years,
\* days past the month's end (or before its first) into the months.
MakeDay(year, month, date) ==
    LET ym == year + (month \div 12)
        mn == month % 12
    IN  DayFromYear(ym) + DaysBeforeMonth(ym, mn) + date - 1

\* A time value from a count of days and a count of seconds of any sign.
MakeTime(day, sec) ==
    [day |-> day + (sec \div SecondsPerDay), sec |-> sec % SecondsPerDay]

\* An Invalid Date: its time value is NaN.
InvalidDate == [day |-> 0, sec |-> -1]

IsValidDate(date) == date.sec >= 0

\* TimeClip: a time value more than 100,000,000 days from the epoch is NaN.
TimeClip(time) ==
    IF \/ time.day > 100000000
       \/ time.day < -100000000
       \/ (time.day = 100000000 /\ time.sec > 0)
    THEN InvalidDate
    ELSE time

\* new Date(year, monthIndex, day, hours, minutes, seconds), in local time.
NewDate(year, monthIndex, day, hours, minutes, seconds, zone) ==
    TimeClip(MakeTime(MakeDay(year, monthIndex, day),
                      hours * 3600 + minutes * 60 + seconds - zone * 60))

\* The year a day number falls in.
YearFromDay(day) ==
    CHOOSE y \in (1970 + (day \div 366) - 1)..(1970 + (day \div 365) + 1) :
        DayFromYear(y) <= day /\ day < DayFromYear(y + 1)

\* The month (0 = January) a day number falls in.
MonthFromDay(day) ==
    LET y == YearFromDay(day)
        inYear == day - DayFromYear(y)
    IN  CHOOSE m0 \in 0..11 :
            /\ DaysBeforeMonth(y, m0) <= inYear
            /\ inYear < DaysBeforeMonth(y, m0) + DaysInMonth(y, m0)

\* Date.prototype.getDate(): the day of the month, in local time.
GetDate(date, zone) ==
    LET day == MakeTime(date.day, date.sec + zone * 60).day
        y == YearFromDay(day)
    IN  day - DayFromYear(y) - DaysBeforeMonth(y, MonthFromDay(day)) + 1

\* date1 < date2 and date1 <= date2 on time values: false when one is NaN.
DateLess(d1, d2) ==
    /\ IsValidDate(d1) /\ IsValidDate(d2)
    /\ d1.day < d2.day \/ (d1.day = d2.day /\ d1.sec < d2.sec)

DateLessEq(d1, d2) ==
    /\ IsValidDate(d1) /\ IsValidDate(d2)
    /\ d1.day < d2.day \/ (d1.day = d2.day /\ d1.sec <= d2.sec)

RECURSIVE DigitPrefix(_)
\* The longest prefix of s made of digits.
DigitPrefix(s) ==
    IF Len(s) = 0 \/ ~IsDigit(Head(s)) THEN <<>>
    ELSE <<Head(s)>> \o DigitPrefix(Tail(s))

\* A number, NaN or null, as parsePartialDate holds them.
JsNull == [t |-> "null", n |-> 0]

JsNaN == [t |-> "NaN", n |-> 0]

JsNumber(n) == [t |-> "number", n |-> n]

\* parseInt(s) for s of digits and letters (no sign, blank or 0x prefix):
\* the number its leading digits spell, NaN when it does not start with one.
ParseInt(s) ==
    IF Len(DigitPrefix(s)) = 0 THEN JsNaN ELSE JsNumber(StrToNat(DigitPrefix(s)))

\* parts[i] ? parseInt(parts[i]) : null
PartNumber(parts, i) ==
    IF i <= Len(parts) /\ Len(parts[i]) > 0 THEN ParseInt(parts[i]) ELSE JsNull

\* Truthiness of a number, NaN or null.
Truthy(v) == v.t = "number" /\ v.n # 0

Epoch == [day |-> 0, sec |-> 0]

NullInterval == [isNull |-> TRUE, start |-> Epoch, end |-> Epoch]

Interval(start, end) == [isNull |-> FALSE, start |-> start, end |-> end]

\* A last day taken one month early: new Date(year, month - 1, 0).getDate().
LastDayOfMonth_PreviousMonth(year, month, zone) ==
    GetDate(NewDate(year, month - 1, 0, 0, 0, 0, zone), zone)

\* const lastDay = new Date(year, month, 0).getDate()
LastDayOfMonth(year, month, zone) ==
    GetDate(NewDate(year, month, 0, 0, 0, 0, zone), zone)

\* !year || year < 1900
YearRejected(year) == ~Truthy(year) \/ year.n < 1900

parsePartialDate(str, zone) ==
    IF Len(str) = 0 THEN NullInterval
    ELSE LET parts == Split(str, "-")
             year == PartNumber(parts, 1)
             month == PartNumber(parts, 2)
             day == PartNumber(parts, 3)
         IN  IF YearRejected(year) THEN NullInterval
             ELSE IF Truthy(day) /\ Truthy(month)
             THEN LET date == NewDate(year.n, month.n - 1, day.n, 0, 0, 0, zone)
                  IN  Interval(date, date)
             ELSE IF Truthy(month)
             THEN IF ~IsValidDate(NewDate(year.n, month.n, 0, 0, 0, 0, zone))
                  \* getDate() of an Invalid Date is NaN, and so is the end.
                  THEN Interval(NewDate(year.n, month.n - 1, 1, 0, 0, 0, zone),
                                InvalidDate)
                  ELSE
                  LET lastDay == LastDayOfMonth(year.n, month.n, zone)
                  IN  Interval(NewDate(year.n, month.n - 1, 1, 0, 0, 0, zone),
                               NewDate(year.n, month.n - 1, lastDay, 23, 59, 59, zone))
             ELSE Interval(NewDate(year.n, 0, 1, 0, 0, 0, zone),
                           NewDate(year.n, 11, 31, 23, 59, 59, zone))

\* An overlap test that wants more than a common endpoint.
rangesOverlap_Strict(range1, range2) ==
    DateLess(range1.start, range2.end) /\ DateLess(range2.start, range1.end)

\* return range1.start <= range2.end && range1.end >= range2.start
rangesOverlap(range1, range2) ==
    DateLessEq(range1.start, range2.end) /\ DateLessEq(range2.start, range1.end)

\* The names that denote the caller's array during the call: without a
\* filterFn, items is arr itself (line 24).
NamesOfArr(opts) ==
    IF opts.filterFn = "none" THEN {"arr", "items"} ELSE {"arr"}

\* The arrays the call writes to: push works on the arrays made at line 29,
\* sort on the array map returned (line 35).
WrittenArrays(opts) ==
    {"acc[key]"} \cup (IF Len(opts.sortBy.field) > 0 THEN {"result"} ELSE {})

\* What the caller's array can hold after the call: what it held, unless
\* the call wrote to it.
ArrOutcomes(a, isArray, opts, written) ==
    IF InputError(isArray, opts) = <<>> /\ NamesOfArr(opts) \cap WrittenArrays(opts) # {}
    THEN written
    ELSE {a}

(***************************************************************************)
(* The dashboard's filter and sort (src/src/HotelBookingDashboard.tsx).    *)
(* Ratings are in tenths (4.5 is 45), which keeps their order.             *)
(***************************************************************************)
HOTELS ==
    <<
       [id |-> 1,
        name |-> <<"A", "g", "o", "d", "a", " ", "P", "a", "l", "a", "c", "e">>,
        city |-> <<"B", "a", "n", "g", "k", "o", "k">>,
        price |-> 120, rating |-> 45,
        amenities |-> <<"WiFi", "Pool", "Gym">>,
        availability |-> [checkIn |-> <<"2", "0", "2", "5", "-", "0", "1", "-", "1", "5">>,
                          checkOut |-> <<"2", "0", "2", "5", "-", "0", "1", "-", "2", "0">>]],
       [id |-> 2,
        name |-> <<"S", "e", "a", "s", "i", "d", "e", " ", "V", "i", "e", "w">>,
        city |-> <<"P", "h", "u", "k", "e", "t">>,
        price |-> 80, rating |-> 42,
        amenities |-> <<"WiFi", "Beach">>,
        availability |-> [checkIn |-> <<"2", "0", "2", "5", "-", "0", "1", "-", "1", "0">>,
                          checkOut |-> <<"2", "0", "2", "5", "-", "0", "1", "-", "2", "5">>]],
       [id |-> 3,
        name |-> <<"M", "o", "u", "n", "t", "a", "i", "n", " ", "S", "t", "a", "y">>,
        city |-> <<"C", "h", "i", "a", "n", "g", " ", "M", "a", "i">>,
        price |-> 100, rating |-> 48,
        amenities |-> <<"WiFi", "Gym", "Spa">>,
        availability |-> [checkIn |-> <<"2", "0", "2", "5", "-", "0", "1", "-", "0", "5">>,
                          checkOut |-> <<"2", "0", "2", "5", "-", "0", "1", "-", "3", "0">>]],
       [id |-> 4,
        name |-> <<"U", "r", "b", "a", "n", " ", "L", "o", "f", "t">>,
        city |-> <<"B", "a", "n", "g", "k", "o", "k">>,
        price |-> 150, rating |-> 46,
        amenities |-> <<"WiFi", "Pool">>,
        availability |-> [checkIn |-> <<"2", "0", "2", "5", "-", "0", "1", "-", "1", "2">>,
                          checkOut |-> <<"2", "0", "2", "5", "-", "0", "1", "-", "1", "8">>]],
       [id |-> 5,
        name |-> <<"T", "r", "o", "p", "i", "c", "a", "l", " ", "R", "e", "s", "o", "r", "t">>,
        city |-> <<"P", "h", "u", "k", "e", "t">>,
        price |-> 200, rating |-> 49,
        amenities |-> <<"WiFi", "Pool", "Beach", "Spa">>,
        availability |-> [checkIn |-> <<"2", "0", "2", "5", "-", "0", "1", "-", "0", "8">>,
                          checkOut |-> <<"2", "0", "2", "5", "-", "0", "1", "-", "2", "2">>]]
    >>

UpperCase ==
    <<"A", "B", "C", "D", "E", "F", "G", "H", "I", "J", "K", "L", "M",
      "N", "O", "P", "Q", "R", "S", "T", "U", "V", "W", "X", "Y", "Z">>

LowerCase ==
    <<"a", "b", "c", "d", "e", "f", "g", "h", "i", "j", "k", "l", "m",
      "n", "o", "p", "q", "r", "s", "t", "u", "v", "w", "x", "y", "z">>

\* The UTF-16 code of a character of the texts used: letters and the space.
CharCode(c) ==
    IF \E i \in 1..26 : UpperCase[i] = c
    THEN 64 + (CHOOSE i \in 1..26 : UpperCase[i] = c)
    ELSE IF \E i \in 1..26 : LowerCase[i] = c
    THEN 96 + (CHOOSE i \in 1..26 : LowerCase[i] = c)
    ELSE 32

LowerChar(c) ==
    IF \E i \in 1..26 : UpperCase[i] = c
    THEN LowerCase[CHOOSE i \in 1..26 : UpperCase[i] = c]
    ELSE c

\* String.prototype.toLowerCase()
ToLowerCase(str) == [i \in 1..Len(str) |-> LowerChar(str[i])]

RECURSIVE StartsWith(_, _)
StartsWith(str, prefix) ==
    IF Len(prefix) = 0 THEN TRUE
    ELSE IF Len(str) = 0 THEN FALSE
    ELSE Head(str) = Head(prefix) /\ StartsWith(Tail(str), Tail(prefix))

RECURSIVE Includes(_, _)
\* String.prototype.includes(search)
Includes(str, search) ==
    IF StartsWith(str, search) THEN TRUE
    ELSE IF Len(str) = 0 THEN FALSE
    ELSE Includes(Tail(str), search)

RECURSIVE StringLess(_, _)
\* a < b on strings: by the first differing code unit, a prefix first.
StringLess(a, b) ==
    IF Len(b) = 0 THEN FALSE
    ELSE IF Len(a) = 0 THEN TRUE
    ELSE IF CharCode(Head(a)) # CharCode(Head(b))
    THEN CharCode(Head(a)) < CharCode(Head(b))
    ELSE StringLess(Tail(a), Tail(b))

\* new Date("YYYY-MM-DD"): midnight UTC of that day.
DateFromIso(str) ==
    LET parts == Split(str, "-")
    IN  [day |-> MakeDay(StrToNat(parts[1]), StrToNat(parts[2]) - 1,
                         StrToNat(parts[3])),
         sec |-> 0]

\* const hotelRange = { start: new Date(checkIn), end: new Date(checkOut) }
HotelRange(hotel) ==
    [start |-> DateFromIso(hotel.availability.checkIn),
     end |-> DateFromIso(hotel.availability.checkOut)]

\* The search test: if (searchLower && !name.includes && !city.includes) return false
SearchMatches(hotel, search) ==
    LET searchLower == ToLowerCase(search)
    IN  ~(/\ Len(searchLower) > 0
          /\ ~Includes(ToLowerCase(hotel.name), searchLower)
          /\ ~Includes(ToLowerCase(hotel.city), searchLower))

\* A price test that leaves out the bounds themselves.
PriceMatches_Exclusive(hotel, priceRange) ==
    ~(hotel.price <= priceRange[1] \/ hotel.price >= priceRange[2])

\* if (hotel.price < priceRange[0] || hotel.price > priceRange[1]) return false
PriceMatches(hotel, priceRange) ==
    ~(hotel.price < priceRange[1] \/ hotel.price > priceRange[2])

ArrayIncludes(array, x) == \E i \in 1..Len(array) : array[i] = x

\* if (amenities.length && !amenities.every(a => hotel.amenities.includes(a))) return false
AmenitiesMatch(hotel, amenities) ==
    ~(/\ Len(amenities) > 0
      /\ ~(\A i \in 1..Len(amenities) : ArrayIncludes(hotel.amenities, amenities[i])))

\* if (hotel.rating < filters.minRating) return false
RatingMatches(hotel, minRating) == ~(hotel.rating < minRating)

\* A validity test that lets a request through whose start is its end.
InvalidRange_OnlyWhenAfter(checkInRange, checkOutRange) ==
    DateLess(checkOutRange.end, checkInRange.start)

\* if (checkInRange.start >= checkOutRange.end) return false
InvalidRange(checkInRange, checkOutRange) ==
    ~DateLess(checkInRange.start, checkOutRange.end)

\* Date tests that let every hotel through when only the check-out field is
\* filled and its text does not parse.
DateRangeMatches_LenientCheckOut(hotel, dateRange, zone) ==
    LET hotelRange == HotelRange(hotel)
        checkInRange == parsePartialDate(dateRange.checkIn, zone)
        checkOutRange == parsePartialDate(dateRange.checkOut, zone)
    IN  IF Len(dateRange.checkIn) > 0
        THEN IF checkInRange.isNull THEN FALSE
             ELSE IF Len(dateRange.checkOut) > 0
             THEN IF checkOutRange.isNull THEN FALSE
                  ELSE IF InvalidRange(checkInRange, checkOutRange) THEN FALSE
                  ELSE rangesOverlap([start |-> checkInRange.start,
                                      end |-> checkOutRange.end], hotelRange)
             ELSE rangesOverlap(checkInRange, hotelRange)
        ELSE IF Len(dateRange.checkOut) > 0
        THEN IF checkOutRange.isNull THEN TRUE
             ELSE rangesOverlap(checkOutRange, hotelRange)
        ELSE TRUE

\* The date tests of the filter (lines 189-212).
DateRangeMatches(hotel, dateRange, zone) ==
    LET hotelRange == HotelRange(hotel)
        checkInRange == parsePartialDate(dateRange.checkIn, zone)
        checkOutRange == parsePartialDate(dateRange.checkOut, zone)
    IN  IF Len(dateRange.checkIn) > 0
        THEN IF checkInRange.isNull THEN FALSE
             ELSE IF Len(dateRange.checkOut) > 0
             THEN IF checkOutRange.isNull THEN FALSE
                  ELSE IF InvalidRange(checkInRange, checkOutRange) THEN FALSE
                  ELSE rangesOverlap([start |-> checkInRange.start,
                                      end |-> checkOutRange.end], hotelRange)
             ELSE rangesOverlap(checkInRange, hotelRange)
        ELSE IF Len(dateRange.checkOut) > 0
        THEN IF checkOutRange.isNull THEN FALSE
             ELSE rangesOverlap(checkOutRange, hotelRange)
        ELSE TRUE

\* The callback of HOTELS.filter.
HotelMatches(hotel, f, zone) ==
    /\ SearchMatches(hotel, f.search)
    /\ PriceMatches(hotel, f.priceRange)
    /\ AmenitiesMatch(hotel, f.amenities)
    /\ RatingMatches(hotel, f.minRating)
    /\ DateRangeMatches(hotel, f.dateRange, zone)

RECURSIVE FilterHotels(_, _, _, _)
\* HOTELS.filter(...), as the indices of the hotels kept, from index i on;
\* rows is the content of HOTELS.
FilterHotels(rows, f, zone, i) ==
    IF i > Len(rows) THEN <<>>
    ELSE (IF HotelMatches(rows[i], f, zone) THEN <<i>> ELSE <<>>)
         \o FilterHotels(rows, f, zone, i + 1)

\* a[field] > b[field]
FieldGreater(a, b, field) ==
    IF field \in {"name", "city"} THEN StringLess(b[field], a[field])
    ELSE a[field] > b[field]

\* order === 'asc' ? (a[field] > b[field] ? 1 : -1) : (a[field] < b[field] ? 1 : -1)
OrderCompare(a, b, field, order) ==
    IF order = "asc" THEN (IF FieldGreater(a, b, field) THEN 1 ELSE -1)
    ELSE (IF FieldGreater(b, a, field) THEN 1 ELSE -1)

\* The comparator of results.sort.
SortCompare(a, b, sortConfig) ==
    LET primaryCompare == OrderCompare(a, b, sortConfig.field, sortConfig.order)
    IN  IF primaryCompare # 0 \/ ~sortConfig.secondary.present
        THEN primaryCompare
        ELSE OrderCompare(a, b, sortConfig.secondary.field,
                          sortConfig.secondary.order)

\* The orders results.sort can leave the rows kept in.
SortedResults(rows, results, sortConfig) ==
    LET n == Len(results)
    IN  UNION {{Permute(results, p) : p \in SortOutcomes(n, cmp)} :
                  cmp \in {[i \in 1..n |-> [j \in 1..n |->
                              SortCompare(rows[results[i]], rows[results[j]],
                                          sortConfig)]]}}

\* What the filteredHotels memo can hold for these filters and this sort:
\* the hotels kept, in an order results.sort can leave them in.
FilteredHotelsOutcomes(rows, f, sortConfig, zone) ==
    UNION {SortedResults(rows, results, sortConfig) :
              results \in {FilterHotels(rows, f, zone, 1)}}

\* An array filter that hands back its own array when it keeps every row.
ResultsIsHotels_WhenAllKept(rows, results) == Len(results) = Len(rows)

\* let results = HOTELS.filter(...): filter builds a new array, so results
\* is never the HOTELS array itself.
ResultsIsHotels(rows, results) == FALSE

\* results.sort(...) sorts in place the array results names: the content of
\* HOTELS once the memo has left the rows in the order sorted.
HotelsAfterSort(rows, sorted) ==
    IF ResultsIsHotels(rows, sorted) THEN [i \in 1..Len(sorted) |-> rows[sorted[i]]]
    ELSE rows

(***************************************************************************)
(* Pagination (lines 233-239).                                             *)
(***************************************************************************)
itemsPerPage == 10

\* A page count that drops the last, partial page.
TotalPagesOf_Floor(count) == count \div itemsPerPage

\* Math.ceil(filteredHotels.length / itemsPerPage)
TotalPagesOf(count) ==
    IF count % itemsPerPage = 0 THEN count \div itemsPerPage
    ELSE (count \div itemsPerPage) + 1

\* A relative index of slice, clamped to the array: negative indices count
\* from the end.
SliceIndex(index, len) ==
    IF index < 0 THEN (IF len + index < 0 THEN 0 ELSE len + index)
    ELSE IF index > len THEN len ELSE index

\* Array.prototype.slice(start, end)
ArraySlice(array, start, end) ==
    SubSeq(array, SliceIndex(start, Len(array)) + 1, SliceIndex(end, Len(array)))

\* filteredHotels.slice((currentPage - 1) * itemsPerPage, currentPage * itemsPerPage)
PaginatedHotelsOf(rows, page) ==
    ArraySlice(rows, (page - 1) * itemsPerPage, page * itemsPerPage)

(***************************************************************************)
(* The inputs transformData is called with.                                *)
(***************************************************************************)
Item(category, location, price) ==
    [category |-> Prim(category), location |-> location, price |-> Prim(price)]

Items ==
    { Item(Str(<<"a">>), Obj(Str(<<"b">>)), Num(1)),
      Item(Str(<<"a">>), Obj(Str(<<"c">>)), Num(2)),
      Item(Str(<<>>), Prim(Undef), Undef),
      Item(Undef, Prim(Num(5)), Str(<<"x">>)),
      Item(Str(<<"a", "|", "b">>), Obj(Str(<<"c">>)), Num(3)),
      Item(Str(<<"a">>), Obj(Str(<<"b", "|", "c">>)), Undef),
      Item(Num(1), Obj(Str(<<"b">>)), Num(-1)),
      Item(Str(<<"1">>), Obj(Num(7)), Num(1)) }

RECURSIVE SeqsUpTo(_, _)
\* The sequences over S of length at most n.
SeqsUpTo(S, n) ==
    IF n = 0 THEN {<<>>}
    ELSE LET shorter == SeqsUpTo(S, n - 1)
         IN  shorter \cup {Append(q, x) : q \in shorter, x \in S}

NoGroupBy == [kind |-> "absent", keys |-> <<>>]

GroupByInputs ==
    { [kind |-> "string", keys |-> << <<"category">> >>],
      [kind |-> "string", keys |-> << <<"location", "city">> >>],
      [kind |-> "array", keys |-> << <<"category">>, <<"location", "city">> >>] }

AggregationInputs ==
    {<<>>}
    \cup {<<[field |-> <<"price">>, aggFn |-> k]>> : k \in AggKinds \cup {"median"}}
    \cup {<<[field |-> <<"location", "city">>, aggFn |-> "max"]>>,
          <<[field |-> <<"price">>, aggFn |-> "sum"],
            [field |-> <<"location", "city">>, aggFn |-> "count"]>>}

SortByInputs ==
    {[field |-> <<>>, order |-> "asc"]}
    \cup {[field |-> <<"price">>, order |-> o] : o \in {"asc", "desc"}}

\* transformData called without its second argument.
OptionsAbsent ==
    [given |-> FALSE, groupBy |-> NoGroupBy, aggregations |-> <<>>,
     sortBy |-> [field |-> <<>>, order |-> "asc"], filterFn |-> "none"]

\* Options without groupBy: {} and { aggregations: { price: 'median' } }.
OptionsWithoutGroupBy ==
    {[given |-> TRUE, groupBy |-> NoGroupBy, aggregations |-> aggs,
      sortBy |-> [field |-> <<>>, order |-> "asc"], filterFn |-> "none"] :
        aggs \in {<<>>, <<[field |-> <<"price">>, aggFn |-> "median"]>>}}

OptionInputs ==
    {OptionsAbsent}
    \cup OptionsWithoutGroupBy
    \cup [given : {TRUE}, groupBy : GroupByInputs, aggregations : AggregationInputs,
          sortBy : SortByInputs, filterFn : {"none", "priceAbove1"}]

NoResult == [threw |-> FALSE, error |-> <<"not called">>, groups |-> <<>>]

NoOptions ==
    [given |-> TRUE, groupBy |-> NoGroupBy, aggregations |-> <<>>,
     sortBy |-> [field |-> <<>>, order |-> "asc"], filterFn |-> "none"]

\* The initial FilterState (lines 66-72) and SortConfig (line 109).
DefaultFilters ==
    [search |-> <<>>, priceRange |-> <<0, 300>>, amenities |-> <<>>,
     minRating |-> 0, dateRange |-> [checkIn |-> <<>>, checkOut |-> <<>>]]

NoSecondary == [present |-> FALSE, field |-> "price", order |-> "asc"]

DefaultSort == [field |-> "price", order |-> "asc", secondary |-> NoSecondary]

(***************************************************************************)
(* useHotelFilters: the filters kept in the URL and in localStorage        *)
(* (lines 51-93).  A rating is in tenths; its text is the decimal.         *)
(***************************************************************************)
Absent == [has |-> FALSE, text |-> <<>>]

Param(text) == [has |-> TRUE, text |-> text]

\* new URLSearchParams() with nothing set.
NoParams ==
    [search |-> Absent, minPrice |-> Absent, maxPrice |-> Absent,
     amenities |-> Absent, minRating |-> Absent, checkIn |-> Absent,
     checkOut |-> Absent]

\* String(n) for a number of tenths: 46 gives "4.6", 40 gives "4".
TenthsToStr(n) ==
    IF n % 10 = 0 THEN NumToStr(n \div 10)
    ELSE NumToStr(n \div 10) \o <<".">> \o NumToStr(n % 10)

IsNumeral(text) == Len(text) > 0 /\ \A i \in 1..Len(text) : IsDigit(text[i])

\* Number(text) for the text of an integer: '' gives 0, digits (after an
\* optional '-') their number, any other text NaN.
NumberOfText(text) ==
    IF Len(text) = 0 THEN JsNumber(0)
    ELSE IF IsNumeral(text) THEN JsNumber(StrToNat(text))
    ELSE IF Head(text) = "-" /\ IsNumeral(Tail(text)) THEN JsNumber(-StrToNat(Tail(text)))
    ELSE JsNaN

\* Number(text), in tenths, for a decimal with at most one digit after the
\* point.
TenthsOfText(text) ==
    LET parts == Split(text, ".")
    IN  IF Len(text) = 0 THEN JsNumber(0)
        ELSE IF Len(parts) = 1 /\ IsNumeral(parts[1])
        THEN JsNumber(10 * StrToNat(parts[1]))
        ELSE IF Len(parts) = 2 /\ IsNumeral(parts[1]) /\ IsNumeral(parts[2])
                /\ Len(parts[2]) = 1
        THEN JsNumber(10 * StrToNat(parts[1]) + StrToNat(parts[2]))
        ELSE JsNaN

RECURSIVE JoinNames(_)
\* amenities.join(','): the names with a ',' between them.
JoinNames(names) ==
    IF Len(names) = 0 THEN <<>>
    ELSE IF Len(names) = 1 THEN <<names[1]>>
    ELSE <<names[1], ",">> \o JoinNames(Tail(names))

\* text.split(',').filter(Boolean): the names between the commas.
SplitNames(text) == SelectSeq(text, LAMBDA c : c # ",")

\* The parameters the sync effect writes (lines 80-87).
ParamsOf(f) ==
    [search |-> IF Len(f.search) > 0 THEN Param(f.search) ELSE Absent,
     minPrice |-> IF f.priceRange[1] > 0 THEN Param(NumToStr(f.priceRange[1]))
                  ELSE Absent,
     maxPrice |-> IF f.priceRange[2] < 300 THEN Param(NumToStr(f.priceRange[2]))
                  ELSE Absent,
     amenities |-> IF Len(f.amenities) > 0 THEN Param(JoinNames(f.amenities))
                   ELSE Absent,
     minRating |-> IF f.minRating > 0 THEN Param(TenthsToStr(f.minRating))
                   ELSE Absent,
     checkIn |-> IF Len(f.dateRange.checkIn) > 0 THEN Param(f.dateRange.checkIn)
                 ELSE Absent,
     checkOut |-> IF Len(f.dateRange.checkOut) > 0 THEN Param(f.dateRange.checkOut)
                  ELSE Absent]

\* JSON.stringify of a string: the text between quotes (the texts here hold
\* no quote and no backslash).
Quoted(text) == <<"\"">> \o text \o <<"\"">>

Unquoted(text) == SubSeq(text, 2, Len(text) - 1)

\* JSON.stringify(filters): the text of each member.
JsonStringify(f) ==
    [search |-> Quoted(f.search),
     priceRange |-> <<NumToStr(f.priceRange[1]), NumToStr(f.priceRange[2])>>,
     amenities |-> f.amenities,
     minRating |-> TenthsToStr(f.minRating),
     checkIn |-> Quoted(f.dateRange.checkIn),
     checkOut |-> Quoted(f.dateRange.checkOut)]

\* JSON.parse of what JsonStringify wrote.
JsonParse(doc) ==
    [search |-> Unquoted(doc.search),
     priceRange |-> <<NumberOfText(doc.priceRange[1]).n,
                      NumberOfText(doc.priceRange[2]).n>>,
     amenities |-> doc.amenities,
     minRating |-> TenthsOfText(doc.minRating).n,
     dateRange |-> [checkIn |-> Unquoted(doc.checkIn),
                    checkOut |-> Unquoted(doc.checkOut)]]

\* localStorage without the item, and with it.
NoItem == [has |-> FALSE, doc |-> JsonStringify(DefaultFilters)]

StoredItem(f) == [has |-> TRUE, doc |-> JsonStringify(f)]

\* params.toString(): empty exactly when no parameter is set.
HasParams(params) ==
    \/ params.search.has \/ params.minPrice.has \/ params.maxPrice.has
    \/ params.amenities.has \/ params.minRating.has
    \/ params.checkIn.has \/ params.checkOut.has

\* params.get(name) || ''
TextOr(param) == IF param.has THEN param.text ELSE <<>>

\* Number(params.get(name)) || fallback: an absent parameter is null,
\* Number(null) is 0, and 0 and NaN give the fallback.
NumberOr(number, fallback) == IF Truthy(number) THEN number.n ELSE fallback

\* getInitialFilters (lines 52-73).
getInitialFilters(params, item) ==
    IF HasParams(params)
    THEN [search |-> TextOr(params.search),
          priceRange |->
              <<NumberOr(NumberOfText(TextOr(params.minPrice)), 0),
                NumberOr(NumberOfText(TextOr(params.maxPrice)), 300)>>,
          amenities |-> IF params.amenities.has
                        THEN SplitNames(params.amenities.text) ELSE <<>>,
          minRating |-> NumberOr(TenthsOfText(TextOr(params.minRating)), 0),
          dateRange |-> [checkIn |-> TextOr(params.checkIn),
                         checkOut |-> TextOr(params.checkOut)]]
    ELSE IF item.has THEN JsonParse(item.doc)
    ELSE DefaultFilters

(***************************************************************************)
(* useDebounce (lines 38-48) and the dashboard's event handlers.           *)
(***************************************************************************)
\* A cleanup that leaves the timeout pending.
ClearTimeout_Forgotten(pending, handler) == pending

\* clearTimeout(handler): pending holds, for each timeout that has not
\* fired, the value its callback will set.
ClearTimeout(pending, handler) == pending \ {handler}

\* The effect of useDebounce after a render: when value changed, the cleanup
\* of the last effect clears its timeout and a new one is set.
TimeoutsAfter(pending, old, new) ==
    IF new = old THEN pending ELSE ClearTimeout(pending, old) \cup {new}

\* A click on a header that keeps the old secondary field.
handleSort_KeepSecondary(prev, field) ==
    [field |-> field,
     order |-> IF prev.field = field /\ prev.order = "asc" THEN "desc" ELSE "asc",
     secondary |-> IF prev.field # field
                   THEN [present |-> TRUE, field |-> prev.field, order |-> prev.order]
                   ELSE prev.secondary]

\* handleSort (lines 290-296): what setSort makes of the SortConfig prev.
handleSort(prev, field) ==
    [field |-> field,
     order |-> IF prev.field = field /\ prev.order = "asc" THEN "desc" ELSE "asc",
     secondary |-> IF prev.field # field
                   THEN [present |-> TRUE, field |-> prev.field, order |-> prev.order]
                   ELSE NoSecondary]

\* prev.amenities.includes(amenity) ? prev.amenities.filter(a => a !== amenity)
\*                                  : [...prev.amenities, amenity]
ToggleAmenity(amenities, amenity) ==
    IF ArrayIncludes(amenities, amenity)
    THEN SelectSeq(amenities, LAMBDA a : a # amenity)
    ELSE Append(amenities, amenity)

\* The filteredHotels memo after a render: computed again when filters or
\* sort changed, and then what the same sort made of the same rows before.
MemoOutcomes(rows, f, sortConfig, zone, oldF, oldSort, oldRows) ==
    IF f = oldF /\ sortConfig = oldSort THEN {oldRows}
    ELSE FilteredHotelsOutcomes(rows, f, sortConfig, zone)

\* The variables of the calls a specification does not make.
DashboardIdle ==
    /\ records = HOTELS
    /\ searchInput = <<>> /\ debouncedValue = <<>> /\ timers = {}

StoreIdle == url = NoParams /\ stored = NoItem

TransformIdle ==
    arr = <<>> /\ arrIsArray = TRUE /\ options = NoOptions /\ result = NoResult

DateIdle == dateStr = <<>> /\ parsed = NullInterval

HotelIdle ==
    filters = DefaultFilters /\ sort = DefaultSort /\ filteredHotels = <<>>

PageIdle == currentPage = 1 /\ totalPages = 0 /\ paginatedHotels = <<>>

OverlapIdle ==
    /\ rangeA = [start |-> Epoch, end |-> Epoch]
    /\ rangeB = [start |-> Epoch, end |-> Epoch]
    /\ overlaps = FALSE

NestedIdle ==
    nestedObj = [category |-> Prim(Undef)] /\ nestedPath = <<>> /\ nested = Undef

InitT ==
    /\ pc = "ready"
    /\ DashboardIdle
    /\ StoreIdle
    /\ result = NoResult
    /\ options \in OptionInputs
    /\ \/ arrIsArray = TRUE /\ arr \in SeqsUpTo(Items, MaxItems)
       \/ arrIsArray = FALSE /\ arr = <<>>
    /\ tz = 0
    /\ DateIdle
    /\ HotelIdle
    /\ PageIdle
    /\ OverlapIdle
    /\ NestedIdle

\* The call transformData(arr, options).
TransformData ==
    /\ pc = "ready"
    /\ result' = transformData(arr, arrIsArray, options)
    /\ arr' \in ArrOutcomes(arr, arrIsArray, options, SeqsUpTo(Items, MaxItems))
    /\ pc' = "done"
    /\ UNCHANGED <<arrIsArray, options, tz, dateVars, hotelVars,
                   pageVars, overlapVars, nestedVars, records, searchVars,
                   storeVars>>

NextT == TransformData

SpecT == InitT /\ [][NextT]_vars

(***************************************************************************)
(* Properties of transformData.                                            *)
(***************************************************************************)
Called == pc = "done"

Groups == result.groups

\* The places <<g, j>> of the output: item j of group g.
Places == {gj \in (1..Len(Groups)) \X (1..MaxItems + 1) :
              gj[2] <= Len(Groups[gj[1]].items)}

\* The records of the input that pass the pre-filter.
Kept == {i \in 1..Len(arr) : FilterFnHolds(options.filterFn, arr[i])}

\* The group whose items hold record i.
GroupsOf(i) == {g \in 1..Len(Groups) :
                   \E j \in 1..Len(Groups[g].items) : Groups[g].items[j] = i}

\* C1: when transformData returns, every record that passes the pre-filter
\* is at exactly one place of the output (one group, once), and every place
\* of the output holds a record that passes the pre-filter: the groups' items
\* together are a permutation of the pre-filtered input.
C1_Partition ==
    (Called /\ ~result.threw) =>
        /\ \A i \in Kept :
               Cardinality({gj \in Places : Groups[gj[1]].items[gj[2]] = i}) = 1
        /\ \A gj \in Places : Groups[gj[1]].items[gj[2]] \in Kept

\* Reached: a call with a pre-filter that drops a record and returns a
\* group with two of the records kept.
C1_Witness ==
    /\ Called /\ ~result.threw
    /\ options.filterFn # "none"
    /\ Kept # 1..Len(arr)
    /\ \E g \in 1..Len(Groups) : Len(Groups[g].items) = 2

\* The members of group g that resolve field to a number.
NumericMembers(g, field) ==
    {j \in 1..Len(Groups[g].items) :
        getNestedValue(arr[Groups[g].items[j]], field).t = "number"}

MemberValue(g, field, j) == getNestedValue(arr[Groups[g].items[j]], field).n

RECURSIVE TotalOver(_, _, _)
\* The total of the members' values over the set S of members.
TotalOver(g, field, S) ==
    IF S = {} THEN 0
    ELSE LET j == CHOOSE x \in S : TRUE
         IN  MemberValue(g, field, j) + TotalOver(g, field, S \ {j})

\* Whether the aggregate v is the statistic aggFn of the numeric members N.
IsStatistic(v, aggFn, g, field, N) ==
    /\ ~v.isNull
    /\ v.den > 0
    /\ CASE aggFn = "sum" -> v.num = TotalOver(g, field, N) * v.den
         [] aggFn = "avg" ->
                v.num * Cardinality(N) = TotalOver(g, field, N) * v.den
         [] aggFn = "min" ->
                \E j \in N : /\ v.num = MemberValue(g, field, j) * v.den
                             /\ \A o \in N : MemberValue(g, field, j)
                                                <= MemberValue(g, field, o)
         [] aggFn = "max" ->
                \E j \in N : /\ v.num = MemberValue(g, field, j) * v.den
                             /\ \A o \in N : MemberValue(g, field, j)
                                                >= MemberValue(g, field, o)
         [] aggFn = "count" -> v.num = Cardinality(N) * v.den
         [] OTHER -> FALSE

\* C2: in every returned group, every aggregate of one of the five kinds over
\* a field that at least one member resolves to a number is the statistic of
\* exactly the members' numeric values: their total, their total divided by
\* how many they are, their least, their greatest, and how many they are.
C2_Aggregates ==
    (Called /\ ~result.threw) =>
        \A g \in 1..Len(Groups) : \A k \in 1..Len(options.aggregations) :
            LET field == options.aggregations[k].field
                aggFn == options.aggregations[k].aggFn
                N == NumericMembers(g, field)
            IN  (aggFn \in AggKinds /\ N # {}) =>
                    /\ Groups[g].aggregates[k].field = field
                    /\ IsStatistic(Groups[g].aggregates[k].value, aggFn, g, field, N)

\* Reached: an avg over a group of three of which two members are numeric,
\* with a quotient that is not a whole number.
C2_Witness ==
    /\ Called /\ ~result.threw
    /\ Len(options.aggregations) = 1
    /\ options.aggregations[1].aggFn = "avg"
    /\ \E g \in 1..Len(Groups) :
           /\ Groups[g].count = 3
           /\ Cardinality(NumericMembers(g, options.aggregations[1].field)) = 2
           /\ Groups[g].aggregates[1].value = Rat(3, 2)

\* The values record i resolves the groupBy paths to.
ResolvedKey(i) ==
    [p \in 1..Len(GroupKeys(options.groupBy)) |->
        getNestedValue(arr[i], GroupKeys(options.groupBy)[p])]

\* C6 (as claimed): two records that pass the pre-filter are in the same
\* group if and only if every groupBy path resolves to equal values on both;
\* an absent value equals no real value, and different combinations of real
\* values never share a group.
C6_SameGroupIffEqualKeys ==
    (Called /\ ~result.threw) =>
        \A i, j \in Kept :
            (GroupsOf(i) = GroupsOf(j)) <=> (ResolvedKey(i) = ResolvedKey(j))

\* C7 (as claimed): with an aggregation of a kind outside the five,
\* transformData throws, whatever the array, and the error names the kind
\* and the field.
C7_UnknownKindAlwaysThrows ==
    (Called /\ arrIsArray /\ options.groupBy.kind # "absent") =>
        \A k \in 1..Len(options.aggregations) :
            options.aggregations[k].aggFn \notin AggKinds =>
                /\ result.threw
                /\ \E m \in 1..Len(result.error) :
                       result.error[m] = options.aggregations[k].aggFn
                /\ \E m \in 1..Len(result.error) :
                       result.error[m] =
                           options.aggregations[k].field[Len(options.aggregations[k].field)]

\* C8: when the aggregations are all of the five kinds, transformData
\* returns, and in every group an aggregate over a field that no member
\* resolves to a number is null, count included.
C8_NullWhenNoNumeric ==
    (/\ Called /\ arrIsArray /\ options.groupBy.kind # "absent"
     /\ \A k \in 1..Len(options.aggregations) :
            options.aggregations[k].aggFn \in AggKinds) =>
        /\ ~result.threw
        /\ \A g \in 1..Len(Groups) : \A k \in 1..Len(options.aggregations) :
               NumericMembers(g, options.aggregations[k].field) = {}
                   => Groups[g].aggregates[k].value.isNull

\* Reached: a count over a nested field whose parent is absent on one
\* group's members and a number on another's, beside a group that counts.
C8_Witness ==
    /\ Called /\ ~result.threw
    /\ Len(options.aggregations) = 2
    /\ options.aggregations[2].aggFn = "count"
    /\ \E g \in 1..Len(Groups) :
           /\ Groups[g].aggregates[2].value.isNull
           /\ \E j \in 1..Len(Groups[g].items) :
                  arr[Groups[g].items[j]].location.t = "undefined"
    /\ \E g \in 1..Len(Groups) :
           /\ Groups[g].aggregates[2].value.isNull
           /\ \E j \in 1..Len(Groups[g].items) :
                  arr[Groups[g].items[j]].location.t = "number"
    /\ \E g \in 1..Len(Groups) : ~Groups[g].aggregates[2].value.isNull

(***************************************************************************)
(* The inputs parsePartialDate is called with: the text of a date field,   *)
(* as one to four dash-separated parts.                                    *)
(***************************************************************************)
YearParts ==
    { <<>>, <<"a", "b", "c">>, <<"0">>, <<"1", "8", "9", "9">>,
      <<"1", "9", "0", "0">>, <<"2", "0", "2", "4">>, <<"2", "0", "2", "5">>,
      <<"2", "0", "2", "5", "a">>, <<"3", "0", "0", "0", "0", "0">> }

MonthParts ==
    { <<>>, <<"0", "0">>, <<"0", "1">>, <<"0", "2">>, <<"2">>, <<"0", "4">>,
      <<"1", "2">>, <<"1", "3">>, <<"1", "a">>, <<"a", "b">> }

DayParts ==
    { <<"0", "0">>, <<"0", "1">>, <<"2", "8">>, <<"2", "9">>, <<"3", "0">>,
      <<"3", "1">>, <<"3", "2">>, <<"1", "a">> }

Dashed(parts) == Join([i \in 1..Len(parts) |-> Str(parts[i])], <<"-">>)

DateStrings ==
    {Dashed(<<y>>) : y \in YearParts}
    \cup {Dashed(<<y, m>>) : y \in YearParts, m \in MonthParts}
    \cup {Dashed(<<y, m, d>>) : y \in YearParts, m \in MonthParts, d \in DayParts}
    \cup {Dashed(<<y, <<"0", "1">>, <<"1", "5">>, <<"9", "9">>>>) : y \in YearParts}

TimeZones == {-300, 0, 420}

InitP ==
    /\ pc = "ready"
    /\ DashboardIdle
    /\ StoreIdle
    /\ tz \in TimeZones
    /\ dateStr \in DateStrings
    /\ parsed = NullInterval
    /\ TransformIdle
    /\ HotelIdle
    /\ PageIdle
    /\ OverlapIdle
    /\ NestedIdle

\* The call parsePartialDate(dateStr).
ParsePartialDate ==
    /\ pc = "ready"
    /\ parsed' = parsePartialDate(dateStr, tz)
    /\ pc' = "done"
    /\ UNCHANGED <<dateStr, tz, transformVars, hotelVars,
                   pageVars, overlapVars, nestedVars, records, searchVars,
                   storeVars>>

NextP == ParsePartialDate

SpecP == InitP /\ [][NextP]_vars

(***************************************************************************)
(* Properties of parsePartialDate.                                         *)
(***************************************************************************)
\* The calendar: month lengths and the Gregorian leap year rule.
CalendarMonthLength(y, m) ==
    IF m = 2
    THEN (IF y % 400 = 0 THEN 29 ELSE IF y % 100 = 0 THEN 28
          ELSE IF y % 4 = 0 THEN 29 ELSE 28)
    ELSE <<31, 0, 31, 30, 31, 30, 31, 31, 30, 31, 30, 31>>[m]

CalendarYearLength(y) == IF CalendarMonthLength(y, 2) = 29 THEN 366 ELSE 365

RECURSIVE CalendarDaysToYear(_)
\* The days from 1970-01-01 to January 1 of year y, counted year by year.
CalendarDaysToYear(y) ==
    IF y = 1970 THEN 0
    ELSE IF y > 1970 THEN CalendarDaysToYear(y - 1) + CalendarYearLength(y - 1)
    ELSE CalendarDaysToYear(y + 1) - CalendarYearLength(y)

RECURSIVE CalendarDaysToMonth(_, _)
CalendarDaysToMonth(y, m) ==
    IF m = 1 THEN 0
    ELSE CalendarDaysToMonth(y, m - 1) + CalendarMonthLength(y, m - 1)

\* The time value of the local calendar time y-m-d h:mi:s in zone.
LocalTime(y, m, d, h, mi, sec, zone) ==
    LET day == CalendarDaysToYear(y) + CalendarDaysToMonth(y, m) + d - 1
        secs == h * 3600 + mi * 60 + sec - zone * 60
    IN  [day |-> day + (secs \div 86400), sec |-> secs % 86400]

AllDigits(str, from, to) == \A i \in from..to : IsDigit(str[i])

TwoDigits(str, at) == 10 * DigitValue(str[at]) + DigitValue(str[at + 1])

FourDigits(str) == 100 * TwoDigits(str, 1) + TwoDigits(str, 3)

\* str is YYYY.
IsYearText(str) == Len(str) = 4 /\ AllDigits(str, 1, 4)

\* str is YYYY-MM with a month of the calendar.
IsYearMonthText(str) ==
    /\ Len(str) = 7 /\ AllDigits(str, 1, 4) /\ str[5] = "-" /\ AllDigits(str, 6, 7)
    /\ TwoDigits(str, 6) \in 1..12

\* str is YYYY-MM-DD with a day of the calendar.
IsFullDateText(str) ==
    /\ Len(str) = 10 /\ AllDigits(str, 1, 4) /\ str[5] = "-"
    /\ AllDigits(str, 6, 7) /\ str[8] = "-" /\ AllDigits(str, 9, 10)
    /\ TwoDigits(str, 6) \in 1..12
    /\ TwoDigits(str, 9) \in 1..CalendarMonthLength(FourDigits(str), TwoDigits(str, 6))

Parsed == pc = "done"

\* C9 (as claimed): parsePartialDate returns an interval only for a text of
\* shape YYYY, YYYY-MM or YYYY-MM-DD, with a month and a day of the calendar
\* and a year from 1900 on; for every other text it returns null.
C9_OnlyDateShapesParse ==
    (Parsed /\ ~parsed.isNull) =>
        /\ IsYearText(dateStr) \/ IsYearMonthText(dateStr) \/ IsFullDateText(dateStr)
        /\ FourDigits(dateStr) >= 1900

\* C10: for a year text from 1900 on the interval runs from January 1
\* 00:00:00 to December 31 23:59:59 of that year, and for a year-month text
\* from the first day 00:00:00 to the calendar's last day of that month
\* 23:59:59, in local time.
C10_YearAndMonthIntervals ==
    Parsed =>
        /\ (IsYearText(dateStr) /\ FourDigits(dateStr) >= 1900) =>
               LET y == FourDigits(dateStr)
               IN  /\ ~parsed.isNull
                   /\ parsed.start = LocalTime(y, 1, 1, 0, 0, 0, tz)
                   /\ parsed.end = LocalTime(y, 12, 31, 23, 59, 59, tz)
        /\ (IsYearMonthText(dateStr) /\ FourDigits(dateStr) >= 1900) =>
               LET y == FourDigits(dateStr)
                   m == TwoDigits(dateStr, 6)
               IN  /\ ~parsed.isNull
                   /\ parsed.start = LocalTime(y, m, 1, 0, 0, 0, tz)
                   /\ parsed.end = LocalTime(y, m, CalendarMonthLength(y, m),
                                             23, 59, 59, tz)

\* Reached: February of a leap year parsed east of UTC, ending on the 29th.
C10_Witness ==
    /\ Parsed /\ ~parsed.isNull
    /\ dateStr = <<"2", "0", "2", "4", "-", "0", "2">>
    /\ tz > 0
    /\ parsed.end = LocalTime(2024, 2, 29, 23, 59, 59, tz)

(***************************************************************************)
(* The filter and sort states the filteredHotels memo is computed for.     *)
(***************************************************************************)
SearchInputs == {<<>>, <<"B", "A", "N", "G">>, <<"s", "e", "a">>, <<"z", "z">>}

DateInputs ==
    { <<>>, <<"a", "b", "c">>, <<"2", "0", "2", "5">>, <<"2", "0", "2", "4">>,
      <<"2", "0", "2", "5", "-", "0", "1", "-", "1", "6">>,
      <<"2", "0", "2", "5", "-", "0", "1", "-", "2", "1">>,
      <<"2", "0", "2", "5", "-", "0", "1", "-", "2", "8">>,
      <<"2", "0", "2", "5", "-", "0", "2">> }

FilterInputs ==
    [search : SearchInputs,
     priceRange : {<<0, 300>>, <<100, 300>>, <<0, 150>>, <<100, 150>>},
     amenities : {<<>>, <<"Pool">>, <<"Pool", "Spa">>},
     minRating : {0, 46},
     dateRange : [checkIn : DateInputs, checkOut : DateInputs]]

SortFields == {"name", "city", "price", "rating"}

SortInputs ==
    {c \in [field : SortFields, order : {"asc", "desc"},
            secondary : {NoSecondary} \cup [present : {TRUE}, field : SortFields,
                                            order : {"asc", "desc"}]] :
        c.secondary.present => c.secondary.field # c.field}

InitH ==
    /\ pc = "ready"
    /\ DashboardIdle
    /\ StoreIdle
    /\ tz \in TimeZones
    /\ \/ filters \in FilterInputs /\ sort = DefaultSort
       \/ filters \in {DefaultFilters, [DefaultFilters EXCEPT !.minRating = 46]}
          /\ sort \in SortInputs
    /\ filteredHotels = <<>>
    /\ TransformIdle
    /\ DateIdle
    /\ PageIdle
    /\ OverlapIdle
    /\ NestedIdle

\* The useMemo that computes filteredHotels from filters and sort.
ComputeFilteredHotels ==
    /\ pc = "ready"
    /\ filteredHotels' \in FilteredHotelsOutcomes(records, filters, sort, tz)
    /\ records' = HotelsAfterSort(records, filteredHotels')
    /\ pc' = "done"
    /\ UNCHANGED <<filters, sort, tz, transformVars, dateVars,
                   pageVars, overlapVars, nestedVars, searchVars, storeVars>>

NextH == ComputeFilteredHotels

SpecH == InitH /\ [][NextH]_vars

(***************************************************************************)
(* Properties of the dashboard's filter and sort.                          *)
(***************************************************************************)
Rendered == pc = "done"

\* Hotel h (an index into HOTELS) is in the filtered result.
Shown(h) == \E k \in 1..Len(filteredHotels) : filteredHotels[k] = h

\* s occurs in t.
IsSubstring(s, t) ==
    \E k \in 0..(Len(t) - Len(s)) : \A i \in 1..Len(s) : t[k + i] = s[i]

SearchCriterion(h) ==
    LET q == ToLowerCase(filters.search)
    IN  \/ Len(q) = 0
        \/ IsSubstring(q, ToLowerCase(HOTELS[h].name))
        \/ IsSubstring(q, ToLowerCase(HOTELS[h].city))

PriceCriterion(h) ==
    filters.priceRange[1] <= HOTELS[h].price /\ HOTELS[h].price <= filters.priceRange[2]

AmenityCriterion(h) ==
    {filters.amenities[i] : i \in 1..Len(filters.amenities)}
        \subseteq {HOTELS[h].amenities[i] : i \in 1..Len(HOTELS[h].amenities)}

RatingCriterion(h) == HOTELS[h].rating >= filters.minRating

\* The availability of hotel h: midnight UTC of its first and last day.
Availability(h) ==
    LET ci == HOTELS[h].availability.checkIn
        co == HOTELS[h].availability.checkOut
    IN  [start |-> LocalTime(FourDigits(ci), TwoDigits(ci, 6), TwoDigits(ci, 9),
                             0, 0, 0, 0),
         end |-> LocalTime(FourDigits(co), TwoDigits(co, 6), TwoDigits(co, 9),
                           0, 0, 0, 0)]

\* Two closed intervals have an instant in common: neither ends before the
\* other starts.
ShareAnInstant(a, b) == ~(DateLess(a.end, b.start) \/ DateLess(b.end, a.start))

CheckIn == parsePartialDate(filters.dateRange.checkIn, tz)

CheckOut == parsePartialDate(filters.dateRange.checkOut, tz)

HasCheckIn == Len(filters.dateRange.checkIn) > 0

HasCheckOut == Len(filters.dateRange.checkOut) > 0

\* The request of both date fields is a proper interval: both parse and
\* check-in's start is strictly before check-out's end.
ProperRequest ==
    ~CheckIn.isNull /\ ~CheckOut.isNull /\ DateLess(CheckIn.start, CheckOut.end)

DateCriterion(h) ==
    CASE HasCheckIn /\ HasCheckOut ->
             /\ ProperRequest
             /\ ShareAnInstant([start |-> CheckIn.start, end |-> CheckOut.end],
                               Availability(h))
      [] HasCheckIn /\ ~HasCheckOut ->
             ~CheckIn.isNull /\ ShareAnInstant(CheckIn, Availability(h))
      [] ~HasCheckIn /\ HasCheckOut ->
             ~CheckOut.isNull /\ ShareAnInstant(CheckOut, Availability(h))
      [] OTHER -> TRUE

\* C3: a hotel is in the filtered result if and only if it meets every
\* criterion at once: the search text (case-insensitive, in the name or the
\* city, empty passes), the price within the inclusive bounds, all required
\* amenities, the minimum rating, and the date criterion.
C3_ConjunctionOfCriteria ==
    Rendered =>
        \A h \in 1..Len(HOTELS) :
            Shown(h) <=> (/\ SearchCriterion(h)
                          /\ PriceCriterion(h)
                          /\ AmenityCriterion(h)
                          /\ RatingCriterion(h)
                          /\ DateCriterion(h))

\* Reached: search BANG, price 100..150, amenity Pool and rating 4.6 leave
\* Urban Loft alone (price and rating on the bounds); Agoda Palace meets all
\* but the rating and is out.
C3_Witness ==
    /\ Rendered
    /\ filters.search = <<"B", "A", "N", "G">>
    /\ filters.priceRange = <<100, 150>>
    /\ filters.amenities = <<"Pool">>
    /\ filters.minRating = 46
    /\ filteredHotels = <<4>>
    /\ SearchCriterion(1) /\ PriceCriterion(1) /\ AmenityCriterion(1)
    /\ ~RatingCriterion(1)

\* C4: with both date fields filled, a hotel that meets the other criteria
\* is in the result if and only if the request is a proper interval (both
\* texts parse, check-in's start strictly before check-out's end) and
\* [check-in start, check-out end] overlaps the hotel's availability; a
\* request that is not proper leaves the result empty.
C4_BothDates ==
    (Rendered /\ HasCheckIn /\ HasCheckOut) =>
        /\ \A h \in 1..Len(HOTELS) :
               (/\ SearchCriterion(h) /\ PriceCriterion(h)
                /\ AmenityCriterion(h) /\ RatingCriterion(h)) =>
                   (Shown(h) <=>
                       /\ ProperRequest
                       /\ ShareAnInstant([start |-> CheckIn.start,
                                          end |-> CheckOut.end], Availability(h)))
        /\ ~ProperRequest => filteredHotels = <<>>

\* Reached: January 21 to January 28 keeps the three hotels still available
\* then and drops the two whose availability ended before.
C4_Witness ==
    /\ Rendered
    /\ filters.dateRange.checkIn = <<"2", "0", "2", "5", "-", "0", "1", "-", "2", "1">>
    /\ filters.dateRange.checkOut = <<"2", "0", "2", "5", "-", "0", "1", "-", "2", "8">>
    /\ Len(filteredHotels) = 3
    /\ ~Shown(1) /\ ~Shown(4)

PrimaryTie(a, b) ==
    ~FieldGreater(a, b, sort.field) /\ ~FieldGreater(b, a, sort.field)

\* a may come before b under the field and direction given.
InOrder(a, b, field, order) ==
    IF order = "asc" THEN ~FieldGreater(a, b, field)
    ELSE ~FieldGreater(b, a, field)

\* C5 (as claimed): with a secondary sort, the result is ordered by the
\* primary field, and any two hotels with equal primary values come in the
\* order of the secondary field under the secondary direction.
C5_SecondaryOrdersTies ==
    (Rendered /\ sort.secondary.present) =>
        \A i, j \in 1..Len(filteredHotels) :
            i < j =>
                LET a == HOTELS[filteredHotels[i]]
                    b == HOTELS[filteredHotels[j]]
                IN  /\ InOrder(a, b, sort.field, sort.order)
                    /\ PrimaryTie(a, b) =>
                           InOrder(a, b, sort.secondary.field, sort.secondary.order)

(***************************************************************************)
(* The intervals rangesOverlap is called with: a start and an end that is  *)
(* not before it, on the first and the last second of a few days.          *)
(***************************************************************************)
MaxDay == 3

Instants == {[day |-> d, sec |-> s] : d \in 0..MaxDay, s \in {0, SecondsPerDay - 1}}

RangeInputs == {r \in [start : Instants, end : Instants] : DateLessEq(r.start, r.end)}

InitR ==
    /\ pc = "ready"
    /\ DashboardIdle
    /\ StoreIdle
    /\ rangeA \in RangeInputs
    /\ rangeB \in RangeInputs
    /\ overlaps = FALSE
    /\ tz = 0
    /\ TransformIdle
    /\ DateIdle
    /\ HotelIdle
    /\ PageIdle
    /\ NestedIdle

\* The call rangesOverlap(rangeA, rangeB).
RangesOverlap ==
    /\ pc = "ready"
    /\ overlaps' = rangesOverlap(rangeA, rangeB)
    /\ pc' = "done"
    /\ UNCHANGED <<rangeA, rangeB, tz, transformVars, dateVars, hotelVars,
                   pageVars, nestedVars, records, searchVars, storeVars>>

NextR == RangesOverlap

SpecR == InitR /\ [][NextR]_vars

(***************************************************************************)
(* Properties of rangesOverlap.                                            *)
(***************************************************************************)
Compared == pc = "done"

\* The seconds from the epoch to an instant.
SecondsOf(t) == t.day * 86400 + t.sec

\* Instant t lies in the closed interval r.
Within(t, r) == SecondsOf(r.start) <= SecondsOf(t) /\ SecondsOf(t) <= SecondsOf(r.end)

\* C11: rangesOverlap(a, b) is true exactly when a.start <= b.end and
\* a.end >= b.start, which for intervals is when they have an instant in
\* common; the answer is the same with the arguments exchanged, it is true
\* for an interval against itself, and true for two intervals that only
\* touch at an endpoint.
C11_Overlap ==
    Compared =>
        /\ overlaps <=> (/\ SecondsOf(rangeA.start) <= SecondsOf(rangeB.end)
                         /\ SecondsOf(rangeA.end) >= SecondsOf(rangeB.start))
        /\ overlaps <=> \E t \in Instants : Within(t, rangeA) /\ Within(t, rangeB)
        /\ overlaps = rangesOverlap(rangeB, rangeA)
        /\ rangeA = rangeB => overlaps
        /\ (rangeA.end = rangeB.start \/ rangeB.end = rangeA.start) => overlaps

\* Reached: two intervals of more than an instant that share only the
\* endpoint where the first ends and the second starts, found to overlap.
C11_Witness ==
    /\ Compared
    /\ overlaps
    /\ rangeA.end = rangeB.start
    /\ DateLess(rangeA.start, rangeA.end)
    /\ DateLess(rangeB.start, rangeB.end)

(***************************************************************************)
(* Properties of the date filter with one field or none.                   *)
(***************************************************************************)
OtherCriteria(h) ==
    SearchCriterion(h) /\ PriceCriterion(h) /\ AmenityCriterion(h) /\ RatingCriterion(h)

\* The interval of the one date field that is filled.
OnlyDate == IF HasCheckIn THEN CheckIn ELSE CheckOut

\* The filters with the texts of the two date fields exchanged.
DatesExchanged ==
    [filters EXCEPT !.dateRange = [checkIn |-> filters.dateRange.checkOut,
                                   checkOut |-> filters.dateRange.checkIn]]

\* C12: with exactly one date field filled, a hotel that meets the other
\* criteria is in the result if and only if the text parses and its interval
\* has an instant in common with the hotel's availability (so a text that
\* does not parse leaves the result empty); the same text in the other field
\* gives the same hotels; with neither field filled every hotel that meets
\* the other criteria is in the result.
C12_SingleDateField ==
    Rendered =>
        /\ (HasCheckIn # HasCheckOut) =>
               /\ \A h \in 1..Len(HOTELS) :
                      Shown(h) <=> (/\ OtherCriteria(h)
                                    /\ ~OnlyDate.isNull
                                    /\ ShareAnInstant(OnlyDate, Availability(h)))
               /\ OnlyDate.isNull => filteredHotels = <<>>
               /\ \A h \in 1..Len(HOTELS) :
                      Shown(h) <=> HotelMatches(HOTELS[h], DatesExchanged, tz)
        /\ (~HasCheckIn /\ ~HasCheckOut) =>
               \A h \in 1..Len(HOTELS) : Shown(h) <=> OtherCriteria(h)

\* Reached: January 28 in the check-out field alone leaves Mountain Stay,
\* the one hotel still available then.
C12_Witness ==
    /\ Rendered
    /\ ~HasCheckIn
    /\ filters.dateRange.checkOut = <<"2", "0", "2", "5", "-", "0", "1", "-", "2", "8">>
    /\ filters.search = <<>> /\ filters.minRating = 0
    /\ filteredHotels = <<3>>

(***************************************************************************)
(* Properties of the sort with no secondary key.                           *)
(***************************************************************************)
\* C13 (as claimed): with no secondary key the result is ordered by the
\* primary field under the chosen direction (no hotel comes before one the
\* field puts ahead of it), and hotels with equal primary values keep the
\* order they have in the input.
C13_MonotoneAndStable ==
    (Rendered /\ ~sort.secondary.present) =>
        \A i, j \in 1..Len(filteredHotels) :
            i < j =>
                LET a == HOTELS[filteredHotels[i]]
                    b == HOTELS[filteredHotels[j]]
                IN  /\ InOrder(a, b, sort.field, sort.order)
                    /\ PrimaryTie(a, b) => filteredHotels[i] < filteredHotels[j]

(***************************************************************************)
(* The lists and page numbers the pagination is computed for.  Pagination  *)
(* does not look at the rows, so a list is the row numbers 1..n.           *)
(***************************************************************************)
MaxRows == 25

MaxPage == 4

RowLists == {[i \in 1..n |-> i] : n \in 0..MaxRows}

InitG ==
    /\ pc = "ready"
    /\ DashboardIdle
    /\ StoreIdle
    /\ filteredHotels \in RowLists
    /\ currentPage \in 1..MaxPage
    /\ totalPages = 0
    /\ paginatedHotels = <<>>
    /\ filters = DefaultFilters
    /\ sort = DefaultSort
    /\ tz = 0
    /\ TransformIdle
    /\ DateIdle
    /\ OverlapIdle
    /\ NestedIdle

\* The render that computes totalPages and the paginatedHotels memo.
Paginate ==
    /\ pc = "ready"
    /\ totalPages' = TotalPagesOf(Len(filteredHotels))
    /\ paginatedHotels' = PaginatedHotelsOf(filteredHotels, currentPage)
    /\ pc' = "done"
    /\ UNCHANGED <<filters, sort, filteredHotels, currentPage, tz,
                   transformVars, dateVars, overlapVars, nestedVars, records,
                   searchVars, storeVars>>

NextG == Paginate

SpecG == InitG /\ [][NextG]_vars

(***************************************************************************)
(* Properties of the pagination.                                           *)
(***************************************************************************)
Paged == pc = "done"

RECURSIVE PagesUpTo(_)
\* The pages 1..n of the list, one after the other.
PagesUpTo(n) ==
    IF n = 0 THEN <<>> ELSE PagesUpTo(n - 1) \o PaginatedHotelsOf(filteredHotels, n)

\* How many rows page p holds: what is left from row (p - 1) * pageSize on,
\* at most pageSize.
RowsOnPage(p) ==
    LET left == Len(filteredHotels) - (p - 1) * itemsPerPage
    IN  IF left <= 0 THEN 0 ELSE IF left > itemsPerPage THEN itemsPerPage ELSE left

\* C14: totalPages is the least number of pages of pageSize rows that hold
\* the list (0 for an empty list); the current page is the rows from index
\* (p - 1) * pageSize up to p * pageSize, never more than pageSize of them;
\* a page number past totalPages gives the empty page; and the pages
\* 1..totalPages one after the other are the whole list.
C14_Pagination ==
    Paged =>
        /\ totalPages * itemsPerPage >= Len(filteredHotels)
        /\ (totalPages - 1) * itemsPerPage < Len(filteredHotels)
        /\ Len(filteredHotels) = 0 => totalPages = 0
        /\ Len(paginatedHotels) = RowsOnPage(currentPage)
        /\ Len(paginatedHotels) <= itemsPerPage
        /\ \A k \in 1..Len(paginatedHotels) :
               paginatedHotels[k] = filteredHotels[(currentPage - 1) * itemsPerPage + k]
        /\ currentPage > totalPages => paginatedHotels = <<>>
        /\ PagesUpTo(totalPages) = filteredHotels

\* Reached: the third and last page of 25 rows, holding the last five.
C14_Witness ==
    /\ Paged
    /\ Len(filteredHotels) = 25
    /\ currentPage = 3
    /\ totalPages = 3
    /\ paginatedHotels = <<21, 22, 23, 24, 25>>

(***************************************************************************)
(* Properties of transformData's sort, pre-filter and group shape.         *)
(***************************************************************************)
\* The aggregate of group g the groups are sorted by, null or missing as 0.
SortValue(g) ==
    LET found == {k \in 1..Len(Groups[g].aggregates) :
                     Groups[g].aggregates[k].field = options.sortBy.field}
    IN  IF found = {} THEN [num |-> 0, den |-> 1]
        ELSE LET v == Groups[g].aggregates[CHOOSE k \in found : TRUE].value
             IN  IF v.isNull THEN [num |-> 0, den |-> 1]
                 ELSE [num |-> v.num, den |-> v.den]

\* x <= y on quotients with positive denominators.
QuotientLessEq(x, y) == x.num * y.den <= y.num * x.den

\* The groups of the same call without sortBy.
UnsortedGroups ==
    transformData(arr, arrIsArray,
                  [options EXCEPT !.sortBy = [field |-> <<>>, order |-> "asc"]]).groups

\* C15: with sortBy.field given, every adjacent pair of the returned groups
\* is in the order of that aggregate, a null or missing aggregate counting
\* as 0: not decreasing for asc, not increasing for desc; and the returned
\* groups are the groups of the unsorted call, each once, unchanged.
C15_SortedByAggregate ==
    (Called /\ ~result.threw /\ Len(options.sortBy.field) > 0) =>
        /\ \A g \in 1..(Len(Groups) - 1) :
               IF options.sortBy.order = "asc"
               THEN QuotientLessEq(SortValue(g), SortValue(g + 1))
               ELSE QuotientLessEq(SortValue(g + 1), SortValue(g))
        /\ Len(Groups) = Len(UnsortedGroups)
        /\ {Groups[g] : g \in 1..Len(Groups)}
               = {UnsortedGroups[g] : g \in 1..Len(UnsortedGroups)}

\* Reached: an ascending sort by the sum of price that moves a group with a
\* negative sum to the front, leaves a group with a null sum in the middle
\* and a group with a positive sum at the end.
C15_Witness ==
    /\ Called /\ ~result.threw
    /\ options.sortBy = [field |-> <<"price">>, order |-> "asc"]
    /\ Len(options.aggregations) = 1
    /\ options.aggregations[1] = [field |-> <<"price">>, aggFn |-> "sum"]
    /\ Len(Groups) = 3
    /\ Groups[1].aggregates[1].value = Rat(-1, 1)
    /\ Groups[2].aggregates[1].value.isNull
    /\ Groups[3].aggregates[1].value = Rat(1, 1)
    /\ Groups # UnsortedGroups

\* The records that pass the pre-filter and resolve the groupBy paths as
\* record i does.
KeptLike(i) ==
    {j \in Kept : createGroupKey(arr[j], options.groupBy)
                      = createGroupKey(arr[i], options.groupBy)}

\* C16: with a filterFn, every record in a group's items passes it and no
\* record that fails it is in any group; every group's items are exactly the
\* passing records of its key, count is their number and every aggregate of
\* the five kinds is the statistic of the passing members only; and there is
\* no group without a passing record.
C16_FilterBeforeGrouping ==
    (Called /\ ~result.threw /\ options.filterFn # "none") =>
        /\ \A gj \in Places : FilterFnHolds(options.filterFn, arr[Groups[gj[1]].items[gj[2]]])
        /\ \A i \in 1..Len(arr) :
               ~FilterFnHolds(options.filterFn, arr[i]) => GroupsOf(i) = {}
        /\ \A g \in 1..Len(Groups) :
               LET members == {Groups[g].items[j] : j \in 1..Len(Groups[g].items)}
               IN  /\ members # {}
                   /\ \A i \in members : members = KeptLike(i)
                   /\ Groups[g].count = Cardinality(members)
                   /\ \A k \in 1..Len(options.aggregations) :
                          LET field == options.aggregations[k].field
                              aggFn == options.aggregations[k].aggFn
                              N == NumericMembers(g, field)
                          IN  (aggFn \in AggKinds /\ N # {}) =>
                                  IsStatistic(Groups[g].aggregates[k].value,
                                              aggFn, g, field, N)

\* Reached: a pre-filter that drops every record of one key, which then has
\* no group, and one of the two records of another key, whose group counts
\* and sums the remaining record alone.
C16_Witness ==
    /\ Called /\ ~result.threw
    /\ options.filterFn = "priceAbove1"
    /\ Len(options.aggregations) = 1
    /\ options.aggregations[1] = [field |-> <<"price">>, aggFn |-> "sum"]
    /\ Len(Groups) = 1
    /\ Groups[1].count = 1
    /\ Groups[1].aggregates[1].value = Rat(2, 1)
    /\ \E i \in 1..Len(arr) : i \notin Kept /\ KeptLike(i) = {}
    /\ \E i \in 1..Len(arr) : i \notin Kept /\ KeptLike(i) # {}

\* C17 (as claimed): every returned group has, for each groupBy path, an
\* identity field named by the path's last segment whose value is the value
\* the path resolves to on each of the group's members; count is the number
\* of items; and the items are in the order of the input.
C17_IdentityCountOrder ==
    (Called /\ ~result.threw) =>
        \A g \in 1..Len(Groups) :
            /\ Len(Groups[g].identity) = Len(GroupKeys(options.groupBy))
            /\ \A p \in 1..Len(Groups[g].identity) :
                   LET key == GroupKeys(options.groupBy)[p]
                   IN  /\ Groups[g].identity[p].name = key[Len(key)]
                       /\ \A j \in 1..Len(Groups[g].items) :
                              Groups[g].identity[p].value
                                  = getNestedValue(arr[Groups[g].items[j]], key)
            /\ Groups[g].count = Len(Groups[g].items)
            /\ \A i, j \in 1..Len(Groups[g].items) :
                   i < j => Groups[g].items[i] < Groups[g].items[j]

(***************************************************************************)
(* The records and paths getNestedValue is called with.                    *)
(***************************************************************************)
NestedObjects ==
    Items \cup { Item(Null, Prim(Null), Str(<<"a", "b", "c">>)),
                 Item(Bool(1), Prim(Bool(0)), Num(0)) }

NestedPaths ==
    { <<"category">>, <<"price">>, <<"location">>, <<"missing">>,
      <<"location", "city">>, <<"location", "missing">>, <<"location", "length">>,
      <<"category", "city">>, <<"category", "length">>,
      <<"price", "city">>, <<"price", "length">>, <<"missing", "city">>,
      <<"location", "city", "length">>, <<"location", "city", "city">> }

InitN ==
    /\ pc = "ready"
    /\ DashboardIdle
    /\ StoreIdle
    /\ nestedObj \in NestedObjects
    /\ nestedPath \in NestedPaths
    /\ nested = Undef
    /\ tz = 0
    /\ TransformIdle
    /\ DateIdle
    /\ HotelIdle
    /\ PageIdle
    /\ OverlapIdle

\* The call getNestedValue(nestedObj, nestedPath).
GetNestedValue ==
    /\ pc = "ready"
    /\ nested' = getNestedValue(nestedObj, nestedPath)
    /\ pc' = "done"
    /\ UNCHANGED <<nestedObj, nestedPath, tz, transformVars, dateVars, hotelVars,
                   pageVars, overlapVars, records, searchVars, storeVars>>

NextN == GetNestedValue

SpecN == InitN /\ [][NextN]_vars

(***************************************************************************)
(* Properties of getNestedValue.                                           *)
(***************************************************************************)
Resolved == pc = "done"

\* What the first k segments of the path resolve to.
Intermediate(k) == getNestedValue(nestedObj, SubSeq(nestedPath, 1, k))

\* C18 (as claimed): when an intermediate value of the walk is absent or is
\* not a mapping (a number, a string, a boolean or null) the result is
\* absent.
C18_AbsentThroughNonMapping ==
    Resolved =>
        ((\E k \in 1..(Len(nestedPath) - 1) : Intermediate(k).t # "object")
            => nested = Undef)

\* The arguments are ones the guards of transformData refuse.
BadArguments == ~arrIsArray \/ ~options.given \/ options.groupBy.kind = "absent"

\* C19: when the first argument is not an array, or options or its groupBy
\* is absent, transformData throws and returns no group at all; the error
\* is the guard's own (the array's first), whatever the records and the
\* other options are, so nothing was filtered, grouped or aggregated before.
C19_InputErrors ==
    (Called /\ BadArguments) =>
        /\ result.threw
        /\ result.groups = <<>>
        /\ result.error = IF ~arrIsArray
                          THEN <<"First argument must be an array">>
                          ELSE <<"options.groupBy is required">>

\* Reached: an array of records with numeric prices and options that lack
\* groupBy but ask for an unknown aggregation: the groupBy error is thrown.
C19_Witness ==
    /\ Called
    /\ arrIsArray /\ Len(arr) > 1
    /\ arr[1].price.t = "number"
    /\ options.given /\ options.groupBy.kind = "absent"
    /\ Len(options.aggregations) = 1
    /\ result.threw
    /\ result.error = <<"options.groupBy is required">>

\* The groups of the same call with the first groupBy path alone.
SingleKeyGroups ==
    transformData(arr, arrIsArray,
                  [options EXCEPT !.groupBy =
                      [kind |-> "string",
                       keys |-> <<GroupKeys(options.groupBy)[1]>>]]).groups

\* The records in a group.
MembersOf(group) == {group.items[j] : j \in 1..Len(group.items)}

\* C20 (as claimed): the groups of a call with a composite key [k1, k2]
\* refine the groups of the same call with k1 alone: the members of every
\* composite group all lie in one single-key group, and every single-key
\* group is the union of the composite groups inside it.
C20_CompositeRefinesSingle ==
    (Called /\ ~result.threw /\ Len(GroupKeys(options.groupBy)) = 2) =>
        /\ \A g \in 1..Len(Groups) :
               \E s \in 1..Len(SingleKeyGroups) :
                   MembersOf(Groups[g]) \subseteq MembersOf(SingleKeyGroups[s])
        /\ \A s \in 1..Len(SingleKeyGroups) :
               MembersOf(SingleKeyGroups[s])
                   = UNION {MembersOf(Groups[g]) :
                               g \in {x \in 1..Len(Groups) :
                                         MembersOf(Groups[x])
                                             \subseteq MembersOf(SingleKeyGroups[s])}}

(***************************************************************************)
(* Properties of the intervals parsePartialDate returns.                   *)
(***************************************************************************)
\* A time value that is an instant: a second of a day, not NaN.
IsInstant(t) == t.sec \in 0..(SecondsPerDay - 1)

\* Instant s is not after instant e.
NotAfter(s, e) ==
    /\ IsInstant(s) /\ IsInstant(e)
    /\ s.day < e.day \/ (s.day = e.day /\ s.sec <= e.sec)

\* The text has three parts of which the second and third read as numbers
\* other than 0: the full-date case.
ReadsAsFullDate(str) ==
    LET parts == Split(str, "-")
    IN  /\ Len(parts) >= 3
        /\ Truthy(PartNumber(parts, 2))
        /\ Truthy(PartNumber(parts, 3))

\* C21 (as claimed): every interval parsePartialDate returns has a start
\* and an end that are instants with the start not after the end; for a text
\* read as a full date the two are the same instant.
C21_StartNotAfterEnd ==
    (Parsed /\ ~parsed.isNull) =>
        /\ NotAfter(parsed.start, parsed.end)
        /\ ReadsAsFullDate(dateStr) => parsed.start = parsed.end

(***************************************************************************)
(* The two pipelines run again and again: transformData on the caller's    *)
(* array, and the dashboard's memos on HOTELS.                             *)
(***************************************************************************)
MaxKept == 2

KeptItems ==
    { Item(Str(<<"a">>), Obj(Str(<<"b">>)), Num(1)),
      Item(Str(<<"b">>), Obj(Str(<<"c">>)), Num(2)) }

KeptOptions ==
    [given : {TRUE}, groupBy : {[kind |-> "string", keys |-> << <<"category">> >>]},
     aggregations : {<<[field |-> <<"price">>, aggFn |-> "sum"]>>},
     sortBy : {[field |-> <<>>, order |-> "asc"], [field |-> <<"price">>, order |-> "desc"]},
     filterFn : {"none", "priceAbove1"}]

KeptFilters == {DefaultFilters, [DefaultFilters EXCEPT !.minRating = 46]}

KeptSorts ==
    {DefaultSort, [field |-> "rating", order |-> "desc", secondary |-> NoSecondary]}

InitM ==
    /\ pc = "ready"
    /\ StoreIdle
    /\ arrIsArray = TRUE
    /\ arr \in SeqsUpTo(KeptItems, MaxKept)
    /\ options \in KeptOptions
    /\ result = NoResult
    /\ filters \in KeptFilters
    /\ sort \in KeptSorts
    /\ filteredHotels = <<>>
    /\ tz = 0
    /\ DashboardIdle
    /\ PageIdle
    /\ DateIdle
    /\ OverlapIdle
    /\ NestedIdle

\* The caller and the user go on: other options for the next call, other
\* filters and another sort for the next render.
Again ==
    /\ pc = "done"
    /\ pc' = "ready"
    /\ options' \in KeptOptions
    /\ filters' \in KeptFilters
    /\ sort' \in KeptSorts
    /\ UNCHANGED <<arr, arrIsArray, result, filteredHotels, tz, dateVars,
                   pageVars, overlapVars, nestedVars, records, searchVars,
                   storeVars>>

NextM == TransformData \/ ComputeFilteredHotels \/ Paginate \/ Again

SpecM == InitM /\ [][NextM]_vars

ManyRows == 11

Letters == <<"a", "b", "c", "d", "f", "g", "i", "j", "k", "m", "n", "p", "q">>

\* A collection too long for one page: its records differ in every field
\* the table sorts by.
ManyHotels ==
    [i \in 1..ManyRows |->
        [id |-> i,
         name |-> <<"H", "o", "t", "e", "l", " ", Letters[i]>>,
         city |-> <<"T", "o", "w", "n", " ", Letters[i]>>,
         price |-> 40 + 10 * i,
         rating |-> 37 + i,
         amenities |-> IF i % 2 = 1 THEN <<"WiFi", "Spa">> ELSE <<"WiFi">>,
         availability |-> HOTELS[3].availability]]

\* What the user types, picks and clicks.
TypedTexts == {<<>>, <<"b">>}

PriceEdits == {<<1, <<"1", "0", "0">> >>}

ToggledAmenities == {"Spa"}

RatingTexts == {<<"4", ".", "6">>}

DateEdits == {<<"checkIn", <<"2", "0", "2", "5", "-", "0", "2", "-", "0", "1">> >>}

ClickedFields == {"name", "rating"}

\* The state a render leaves: the memos, the page, and what the sync effect
\* of useHotelFilters wrote (lines 77-90).
Rerender(f, sortConfig, page) ==
    /\ filters' = f
    /\ sort' = sortConfig
    /\ currentPage' = page
    /\ filteredHotels' \in MemoOutcomes(records, f, sortConfig, tz,
                                        filters, sort, filteredHotels)
    /\ records' = HotelsAfterSort(records, filteredHotels')
    /\ totalPages' = TotalPagesOf(Len(filteredHotels'))
    /\ paginatedHotels' = PaginatedHotelsOf(filteredHotels', page)
    /\ url' = ParamsOf(f)
    /\ stored' = StoredItem(f)
    /\ UNCHANGED <<tz, transformVars, dateVars, overlapVars, nestedVars, pc>>

\* The dashboard after its first render and effects, opened without
\* parameters and with nothing stored.
Mounted ==
    /\ pc = "done"
    /\ tz = 0
    /\ filters = getInitialFilters(NoParams, NoItem)
    /\ sort = DefaultSort
    /\ currentPage = 1
    /\ searchInput = filters.search
    /\ debouncedValue = searchInput
    /\ timers = {searchInput}
    /\ filteredHotels \in FilteredHotelsOutcomes(records, filters, sort, tz)
    /\ totalPages = TotalPagesOf(Len(filteredHotels))
    /\ paginatedHotels = PaginatedHotelsOf(filteredHotels, currentPage)
    /\ url = ParamsOf(filters)
    /\ stored = StoredItem(filters)
    /\ TransformIdle
    /\ DateIdle
    /\ OverlapIdle
    /\ NestedIdle

\* handleSearchChange (lines 253-256), for a change event with this text.
HandleSearchChange(text) ==
    /\ text # searchInput
    /\ searchInput' = text
    /\ timers' = TimeoutsAfter(timers, searchInput, text)
    /\ UNCHANGED debouncedValue
    /\ Rerender(filters, sort, 1)

\* A timeout of useDebounce fires: setDebouncedValue(value), and when that
\* changes debouncedSearch the sync effect of lines 117-119 sets
\* filters.search.
TimerFires(handler) ==
    /\ handler \in timers
    /\ timers' = timers \ {handler}
    /\ debouncedValue' = handler
    /\ UNCHANGED searchInput
    /\ Rerender(IF handler # debouncedValue
                THEN [filters EXCEPT !.search = handler] ELSE filters,
                sort, currentPage)

DebounceExpires == \E handler \in timers : TimerFires(handler)

\* handlePriceChange (lines 258-266); index counts from 1 here.
HandlePriceChange(index, text) ==
    /\ NumberOfText(text).t = "number"
    /\ UNCHANGED searchVars
    /\ Rerender([filters EXCEPT !.priceRange[index] = NumberOfText(text).n],
                sort, 1)

\* handleAmenityToggle (lines 268-276).
HandleAmenityToggle(amenity) ==
    /\ UNCHANGED searchVars
    /\ Rerender([filters EXCEPT !.amenities = ToggleAmenity(@, amenity)], sort, 1)

\* The onChange of the rating slider (line 358).
HandleRatingChange(text) ==
    /\ TenthsOfText(text).t = "number"
    /\ UNCHANGED searchVars
    /\ Rerender([filters EXCEPT !.minRating = TenthsOfText(text).n], sort, 1)

\* The onChange of the two date inputs (lines 367-371).
HandleDateChange(which, text) ==
    /\ UNCHANGED searchVars
    /\ Rerender([filters EXCEPT !.dateRange[which] = text], sort, 1)

\* handleClearFilters (lines 278-288).
HandleClearFilters ==
    /\ searchInput' = <<>>
    /\ timers' = TimeoutsAfter(timers, searchInput, <<>>)
    /\ UNCHANGED debouncedValue
    /\ Rerender(DefaultFilters, sort, 1)

\* A click on a column header (line 416); the table and its headers are
\* rendered only while filteredHotels is not empty (line 400).
HandleSort(field) ==
    /\ Len(filteredHotels) > 0
    /\ UNCHANGED searchVars
    /\ Rerender(filters, handleSort(sort, field), currentPage)

\* The Prev and Next buttons (lines 437-448), rendered while totalPages > 1
\* and disabled on the first and the last page.
PrevPage ==
    /\ Len(filteredHotels) > 0 /\ totalPages > 1
    /\ currentPage # 1
    /\ UNCHANGED searchVars
    /\ Rerender(filters, sort, IF currentPage - 1 > 1 THEN currentPage - 1 ELSE 1)

NextPage ==
    /\ Len(filteredHotels) > 0 /\ totalPages > 1
    /\ currentPage # totalPages
    /\ UNCHANGED searchVars
    /\ Rerender(filters, sort,
                IF currentPage + 1 < totalPages THEN currentPage + 1 ELSE totalPages)

InitU ==
    /\ records \in {HOTELS, ManyHotels}
    /\ Mounted

NextU ==
    \/ \E text \in TypedTexts : HandleSearchChange(text)
    \/ DebounceExpires
    \/ \E edit \in PriceEdits : HandlePriceChange(edit[1], edit[2])
    \/ \E amenity \in ToggledAmenities : HandleAmenityToggle(amenity)
    \/ \E text \in RatingTexts : HandleRatingChange(text)
    \/ \E edit \in DateEdits : HandleDateChange(edit[1], edit[2])
    \/ HandleClearFilters
    \/ \E field \in ClickedFields : HandleSort(field)
    \/ PrevPage
    \/ NextPage

SpecU == InitU /\ [][NextU]_vars

(***************************************************************************)
(* Properties of the header clicks.                                        *)
(***************************************************************************)
Opposite(order) == IF order = "asc" THEN "desc" ELSE "asc"

\* C23: a click on the header of the primary field turns its direction
\* round and leaves no secondary; a click on another header makes that
\* field the primary, ascending, with the old primary and its direction
\* as the secondary; and a secondary field is never the primary field.
C23_HeaderClick ==
    /\ [](sort.secondary.present => sort.secondary.field # sort.field)
    /\ [][sort' # sort =>
            IF sort'.field = sort.field
            THEN /\ sort'.order = Opposite(sort.order)
                 /\ ~sort'.secondary.present
            ELSE /\ sort'.order = "asc"
                 /\ sort'.secondary.present
                 /\ sort'.secondary.field = sort.field
                 /\ sort'.secondary.order = sort.order]_vars

\* Reached: name clicked after rating was clicked twice: name ascending,
\* with rating descending as the secondary.
C23_Witness ==
    /\ sort.field = "name" /\ sort.order = "asc"
    /\ sort.secondary.present
    /\ sort.secondary.field = "rating" /\ sort.secondary.order = "desc"

(***************************************************************************)
(* The search box alone: typing, Clear All, and the timeouts of            *)
(* useDebounce.  A pending timeout fires once its delay has passed.        *)
(***************************************************************************)
SearchTexts ==
    {<<>>, <<"b">>, <<"b", "a">>, <<"b", "a", "n">>,
     <<"s">>, <<"s", "e">>, <<"s", "e", "a">>, <<"z">>}

InitD ==
    /\ records = HOTELS
    /\ Mounted

NextD ==
    \/ \E text \in SearchTexts : HandleSearchChange(text)
    \/ DebounceExpires
    \/ HandleClearFilters

SpecD == InitD /\ [][NextD]_vars

\* The event loop runs the callback of a timeout that stays pending.
FairSpecD == SpecD /\ WF_vars(DebounceExpires)

\* C24: a change of the value cancels the timeout that was pending, so the
\* only timeout ever pending is the one of the current input; the debounced
\* value changes only by that timeout firing, to the input that has not
\* changed since it was set; and unless the input changes for ever, from
\* some time on the debounced value is the input.
C24_Debounce ==
    /\ [](timers \subseteq {searchInput})
    /\ [][searchInput' # searchInput => timers' = {searchInput'}]_vars
    /\ [][debouncedValue' # debouncedValue =>
            /\ timers = {searchInput}
            /\ debouncedValue' = searchInput
            /\ searchInput' = searchInput
            /\ timers' = {}]_vars
    /\ \/ []<><<searchInput' # searchInput>>_searchInput
       \/ <>[](debouncedValue = searchInput)

\* Reached: "b" was typed and then "ba" before the first timeout fired; the
\* debounced value went from '' to "ba" and never was "b".
C24_Witness ==
    /\ searchInput = <<"b", "a">>
    /\ debouncedValue = <<"b", "a">>
    /\ filters.search = <<"b", "a">>
    /\ timers = {}

\* C26 (as claimed): whenever no timeout is pending and the search input
\* equals the debounced value (isLoading is false), filters.search is the
\* text of the search input.
C26_SearchFollowsInput ==
    (timers = {} /\ searchInput = debouncedValue) => filters.search = searchInput

KeptPriceEdits ==
    { <<1, <<"1", "0", "0">> >>, <<2, <<"1", "5", "0">> >>,
      <<2, <<"0">> >>, <<2, <<"5", "0", "0">> >> }

KeptRatingTexts == {<<"4", ".", "6">>, <<"4">>}

KeptAmenities == {"Pool", "Spa"}

\* The page is loaded again at the URL and with the storage the sync effect
\* left: the dashboard mounts with getInitialFilters' filters.
Reload ==
    /\ pc = "done"
    /\ pc' = "loaded"
    /\ filters' = getInitialFilters(url, stored)
    /\ sort' = DefaultSort
    /\ currentPage' = 1
    /\ searchInput' = filters'.search
    /\ debouncedValue' = filters'.search
    /\ timers' = {filters'.search}
    /\ filteredHotels' \in FilteredHotelsOutcomes(records, filters', DefaultSort, tz)
    /\ records' = HotelsAfterSort(records, filteredHotels')
    /\ totalPages' = TotalPagesOf(Len(filteredHotels'))
    /\ paginatedHotels' = PaginatedHotelsOf(filteredHotels', 1)
    /\ url' = ParamsOf(filters')
    /\ stored' = StoredItem(filters')
    /\ UNCHANGED <<tz, transformVars, dateVars, overlapVars, nestedVars>>

InitF ==
    /\ records = HOTELS
    /\ Mounted

NextF ==
    \/ \E text \in TypedTexts : HandleSearchChange(text)
    \/ DebounceExpires
    \/ \E edit \in KeptPriceEdits : HandlePriceChange(edit[1], edit[2])
    \/ \E amenity \in KeptAmenities : HandleAmenityToggle(amenity)
    \/ \E text \in KeptRatingTexts : HandleRatingChange(text)
    \/ \E edit \in DateEdits : HandleDateChange(edit[1], edit[2])
    \/ Reload

SpecF == InitF /\ [][NextF]_vars

\* C25 (as claimed): a reload gives back the filters the sync effect wrote:
\* the same search, price bounds, amenities, minimum rating and dates.
C25_ReloadRestores ==
    [][(pc = "done" /\ pc' = "loaded") => filters' = filters]_vars

====
